---- MODULE Spec2Model ----
(***************************************************************************)
(* Model of the planning-poker session registry (SessionManager.ts).       *)
(*                                                                         *)
(* The registry keeps two insertion-ordered JS Maps (sessions, joinCodes), *)
(* a cleanup configuration and the handle of one setInterval timer.  Every *)
(* public method is one action; the private helpers are operators over a   *)
(* record `reg` holding the registry fields, so that a method that calls   *)
(* another one (leaveSession -> cleanupIfEmpty -> deleteSession,           *)
(* performCleanup -> deleteSession) is modelled as a whole.                *)
(*                                                                         *)
(* Strings are sequences of one-character strings.  Session.ts,            *)
(* Participant.ts and types/poker.ts are not part of the inspected sources;*)
(* the few members the registry uses are modelled from the specification.  *)
(* Display names (session name, participant name) and createdAt are never  *)
(* read by the registry and are left out of the records.                   *)
(***************************************************************************)
EXTENDS Integers, Sequences, FiniteSets, TLC

(***************************************************************************)
(* Bounds of the model.                                                    *)
(***************************************************************************)
\* number of sessions ever constructed (session ids are fresh)
MaxSessions == 2
\* number of participants ever constructed (participant ids are fresh): a host
\* for every session and one participant more
MaxParticipants == MaxSessions + 1
\* Math.random is restricted to the first NumCodes codes of the code space
NumCodes == 2
\* number of draws (recursion depth) followed in generateJoinCode
MaxDraws == 2
\* the clock runs from 0 to MaxTime
MaxTime == 2

(***************************************************************************)
(* Option values: null is the empty sequence, a value x is <<x>>.          *)
(***************************************************************************)
Null == <<>>
Some(x) == <<x>>

\* cleanupIntervalId = null
NoTimer == 0

(***************************************************************************)
(* JS Map: a sequence of entries [k, v] in insertion order, keys unique.   *)
(***************************************************************************)
MapKeys(m) == [i \in 1..Len(m) |-> m[i].k]

MapHas(m, key) == \E i \in 1..Len(m) : m[i].k = key

MapGet(m, key) ==
  IF MapHas(m, key)
    THEN Some(m[CHOOSE i \in 1..Len(m) : m[i].k = key].v)
    ELSE Null

\* Map.prototype.set: overwrite in place when the key exists, else append
MapSet(m, key, val) ==
  IF MapHas(m, key)
    THEN [i \in 1..Len(m) |-> IF m[i].k = key THEN [k |-> key, v |-> val] ELSE m[i]]
    ELSE Append(m, [k |-> key, v |-> val])

MapDelete(m, key) == SelectSeq(m, LAMBDA e : e.k # key)

(***************************************************************************)
(* Strings and the join-code alphabet.                                     *)
(***************************************************************************)
JOIN_CODE_LENGTH == 6

JOIN_CODE_CHARS ==
  << "A", "B", "C", "D", "E", "F", "G", "H", "J", "K", "L", "M", "N", "P", "Q", "R",
     "S", "T", "U", "V", "W", "X", "Y", "Z", "2", "3", "4", "5", "6", "7", "8", "9" >>

LowerCase ==
  << "a", "b", "c", "d", "e", "f", "g", "h", "i", "j", "k", "l", "m",
     "n", "o", "p", "q", "r", "s", "t", "u", "v", "w", "x", "y", "z" >>

UpperCase ==
  << "A", "B", "C", "D", "E", "F", "G", "H", "I", "J", "K", "L", "M",
     "N", "O", "P", "Q", "R", "S", "T", "U", "V", "W", "X", "Y", "Z" >>

\* the characters of the model's strings
Chars ==
  { LowerCase[j] : j \in 1..Len(LowerCase) } \cup { UpperCase[j] : j \in 1..Len(UpperCase) }
    \cup { JOIN_CODE_CHARS[j] : j \in 1..Len(JOIN_CODE_CHARS) } \cup { " " }

\* a lower-case letter becomes its upper-case letter, any other character stays
UpperOfChar ==
  [c \in Chars |->
     IF \E j \in 1..Len(LowerCase) : LowerCase[j] = c
       THEN UpperCase[CHOOSE j \in 1..Len(LowerCase) : LowerCase[j] = c]
       ELSE c]

\* String.prototype.toUpperCase, character by character
toUpperCase(s) == [i \in 1..Len(s) |-> UpperOfChar[s[i]]]

IsSpace(c) == c = " "

\* String.prototype.trim: drop leading and trailing white space
RECURSIVE trimStart(_)
trimStart(s) ==
  IF Len(s) > 0 /\ IsSpace(s[1]) THEN trimStart(Tail(s)) ELSE s

RECURSIVE trimEnd(_)
trimEnd(s) ==
  IF Len(s) > 0 /\ IsSpace(s[Len(s)]) THEN trimEnd(SubSeq(s, 1, Len(s) - 1)) ELSE s

trim(s) == trimEnd(trimStart(s))

toLowerCase(s) ==
  [i \in 1..Len(s) |->
     IF \E j \in 1..Len(UpperCase) : UpperCase[j] = s[i]
       THEN LowerCase[CHOOSE j \in 1..Len(UpperCase) : UpperCase[j] = s[i]]
       ELSE s[i]]

(***************************************************************************)
(* Math.random: one draw is JOIN_CODE_LENGTH alphabet indices.  The draws  *)
(* of the model are the digit strings (base alphabet size) of the numbers  *)
(* 0..NumCodes-1, i.e. the first NumCodes codes of the code space.         *)
(***************************************************************************)
RECURSIVE Pow(_, _)
Pow(b, e) == IF e = 0 THEN 1 ELSE b * Pow(b, e - 1)

RandomIndices(r) ==
  [i \in 1..JOIN_CODE_LENGTH |->
     (r \div Pow(Len(JOIN_CODE_CHARS), JOIN_CODE_LENGTH - i)) % Len(JOIN_CODE_CHARS)]

Draws == { RandomIndices(r) : r \in 0..(NumCodes - 1) }

\* the sequences of draws one generateJoinCode call may consume
DrawSeqs == UNION { [1..n -> Draws] : n \in 1..MaxDraws }

\* lines 106-109: code += JOIN_CODE_CHARS.charAt(index)
CodeOfDraw(d) == [i \in 1..JOIN_CODE_LENGTH |-> JOIN_CODE_CHARS[d[i] + 1]]

AllCodes == { CodeOfDraw(d) : d \in Draws }

\* inputs of the lookups: canonical codes, lower-cased and padded spellings
JoinInputs ==
  AllCodes \cup { <<" ">> \o toLowerCase(c) \o <<" ">> : c \in AllCodes }

(***************************************************************************)
(* Cleanup configuration.                                                  *)
(***************************************************************************)
DEFAULT_CLEANUP_CONFIG ==
  [checkInterval |-> 60000, maxInactivity |-> 30 * 60000, deleteWhenEmpty |-> TRUE]

\* constructor: { ...DEFAULT_CLEANUP_CONFIG, ...config }
MergeConfig(config) ==
  [f \in DOMAIN DEFAULT_CLEANUP_CONFIG |->
     IF f \in DOMAIN config THEN config[f] ELSE DEFAULT_CLEANUP_CONFIG[f]]

\* the Partial<CleanupConfig> values passed to getInstance: the intervals are
\* overridden with values of the model clock (maxInactivity the largest one the
\* clock can still exceed), deleteWhenEmpty is either left to its default or
\* switched off
ConfigOverrides ==
  { [checkInterval |-> 1, maxInactivity |-> MaxTime - 1],
    [checkInterval |-> 1, maxInactivity |-> MaxTime - 1, deleteWhenEmpty |-> FALSE] }

VARIABLES
  sessions,           \* Map<string, Session>, session id -> session
  joinCodes,          \* Map<string, string>, join code -> session id
  cleanupConfig,      \* the merged CleanupConfig
  cleanupIntervalId,  \* handle of the interval timer, NoTimer when null
  timers,             \* the interval timers active in the runtime
  nextTimerId,        \* next handle setInterval returns
  nextSessionId,      \* next fresh session id
  nextParticipantId,  \* next fresh participant id
  now,                \* Date.now()
  last                \* the last call: operation, arguments, return value

vars == << sessions, joinCodes, cleanupConfig, cleanupIntervalId, timers,
           nextTimerId, nextSessionId, nextParticipantId, now, last >>

\* the module state of the useWebSocket composable (app/types/index.ts:86-92)
\* and what the runtime holds for it
VARIABLES
  globalWs,                 \* id of the current WebSocket, 0 when null
  globalReconnectAttempts,
  globalReconnectTimer,     \* handle of the last setTimeout, 0 when null
  globalPingInterval,       \* handle of the last setInterval, 0 when null
  globalHandlers,           \* Map<ServerMessageType, Set<MessageHandler>>
  globalStatus,             \* 'disconnected' | 'connecting' | 'connected' | 'error'
  isInitialized,
  instances,                \* the options of the useWebSocket() calls made so far
  pendingMount,             \* instance whose onMounted callback is due, 0 if none
  sockets,                  \* WebSocket objects that can still raise events
  timeouts,                 \* setTimeout callbacks not yet run
  intervals,                \* setInterval handles not cleared
  halted,                   \* disconnect() was called and no connect() since
  registrations,            \* the functions on() returned that callers still hold
  clast                     \* the last call or callback of the channel

cvars == << globalWs, globalReconnectAttempts, globalReconnectTimer,
            globalPingInterval, globalHandlers, globalStatus, isInitialized,
            instances, pendingMount, sockets, timeouts, intervals, halted,
            registrations, clast >>

\* the round of one session and the host's controls (SessionControls)
VARIABLES
  round,      \* the Session whose rounds are played, <<>> when none is looked at
  controls,   \* storyInput and descriptionInput of SessionControls
  slast       \* the last user intent and what became of it

svars == << round, controls, slast >>

\* a user intent: the component event it raised, if any, and whether the
\* session took it
SCall(op) == [op |-> op, emitted |-> FALSE, accepted |-> FALSE, pid |-> 0]

\* lines 159-160: the refs of SessionControls at setup, and the props it was
\* rendered with last
EmptyControls ==
  [storyInput |-> <<>>, descriptionInput |-> <<>>,
   props |-> [isHost |-> FALSE, status |-> "waiting"]]

\* no session is looked at
RoundIdle ==
  /\ round = <<>>
  /\ controls = EmptyControls
  /\ slast = SCall("none")

\* the record of a channel call or callback
CCall(op) ==
  [op |-> op, inst |-> 0, sock |-> 0, created |-> 0, scheduled |-> 0,
   sent |-> <<>>, msg |-> <<>>, invoked |-> <<>>, caught |-> FALSE,
   reg |-> <<>>, was |-> ""]

\* lines 86-92: the module state when the module is loaded
ChannelLoaded ==
  /\ globalWs = 0
  /\ globalReconnectAttempts = 0
  /\ globalReconnectTimer = 0
  /\ globalPingInterval = 0
  /\ globalHandlers = <<>>
  /\ globalStatus = "disconnected"
  /\ isInitialized = FALSE
  /\ instances = <<>>
  /\ pendingMount = 0
  /\ sockets = {}
  /\ timeouts = {}
  /\ intervals = {}
  /\ halted = FALSE
  /\ registrations = {}
  /\ clast = CCall("load")

\* the registry fields every method works on
Reg ==
  [sessions |-> sessions, joinCodes |-> joinCodes,
   cleanupIntervalId |-> cleanupIntervalId, timers |-> timers,
   nextTimerId |-> nextTimerId]

SetReg(reg) ==
  /\ sessions' = reg.sessions
  /\ joinCodes' = reg.joinCodes
  /\ cleanupIntervalId' = reg.cleanupIntervalId
  /\ timers' = reg.timers
  /\ nextTimerId' = reg.nextTimerId

(***************************************************************************)
(* Participant and Session (modelled from the specification).              *)
(***************************************************************************)
NewParticipant(id, isObserver) ==
  [id |-> id, isObserver |-> isObserver, selectedValue |-> Null]

NewSession(id, hostId) ==
  [id |-> id, hostId |-> hostId, participants |-> <<>>,
   status |-> "waiting", currentStory |-> Null, currentDescription |-> Null,
   updatedAt |-> now]

\* the join policy of a session: duplicate ids and closed sessions are rejected
AcceptsParticipant(session, participant) ==
  /\ \A i \in 1..Len(session.participants) : session.participants[i].id # participant.id
  /\ session.status # "completed"

\* Session.addParticipant: [session, added]
addParticipant(session, participant) ==
  IF AcceptsParticipant(session, participant)
    THEN [session |-> [session EXCEPT !.participants = Append(@, participant),
                                      !.updatedAt = now],
          added |-> TRUE]
    ELSE [session |-> session, added |-> FALSE]

HasParticipant(session, participantId) ==
  \E i \in 1..Len(session.participants) : session.participants[i].id = participantId

\* the host after the participant of an id has left: the next-joined
\* remaining participant if the host left, the host as before otherwise (and
\* when nobody remains)
HostAfter(session, remaining, participantId) ==
  IF session.hostId = participantId /\ Len(remaining) > 0
    THEN remaining[1].id
    ELSE session.hostId

\* Session.removeParticipant: [session, removed]
removeParticipant(session, participantId) ==
  IF HasParticipant(session, participantId)
    THEN LET remaining == SelectSeq(session.participants,
                                    LAMBDA p : p.id # participantId)
         IN  [session |-> [session EXCEPT
                             !.participants = remaining,
                             !.hostId = HostAfter(session, remaining, participantId),
                             !.updatedAt = now],
              removed |-> TRUE]
    ELSE [session |-> session, removed |-> FALSE]

\* any state -> completed, a status transition refreshes updatedAt
complete(session) == [session EXCEPT !.status = "completed", !.updatedAt = now]

(***************************************************************************)
(* Timers of the runtime.                                                  *)
(***************************************************************************)
\* setInterval: a new active timer with a fresh handle.  The event loop may
\* delay a callback for any time, so the period is not part of the timer state:
\* an active timer may fire at any step
setInterval(reg, interval) ==
  [reg EXCEPT !.timers = @ \cup { reg.nextTimerId },
              !.cleanupIntervalId = reg.nextTimerId,
              !.nextTimerId = @ + 1]

\* clearInterval: the timer with this handle is no longer active
clearInterval(reg, id) ==
  [reg EXCEPT !.timers = @ \ { id }]

(***************************************************************************)
(* SessionManager: helpers and methods as operators over reg.              *)
(***************************************************************************)
\* startCleanup without the early return of lines 250-252
startCleanup_NoGuard(reg) == setInterval(reg, cleanupConfig.checkInterval)

startCleanup(reg) ==
  IF reg.cleanupIntervalId # NoTimer
    THEN reg
    ELSE setInterval(reg, cleanupConfig.checkInterval)

stopCleanup(reg) ==
  IF reg.cleanupIntervalId # NoTimer
    THEN [clearInterval(reg, reg.cleanupIntervalId) EXCEPT !.cleanupIntervalId = NoTimer]
    ELSE reg

\* generateJoinCode without the uniqueness check of lines 112-114
generateJoinCode_NoRetry(reg, ds, n) ==
  IF n > Len(ds)
    THEN Null
    ELSE Some([code |-> CodeOfDraw(ds[n]), draws |-> n])

\* generateJoinCode over the draws ds, starting at draw n: the first drawn code
\* that is not a key of joinCodes, with the number of draws used; Null when
\* every draw of ds collides (the recursion goes on beyond the modelled depth)
RECURSIVE generateJoinCode(_, _, _)
generateJoinCode(reg, ds, n) ==
  IF n > Len(ds)
    THEN Null
    ELSE LET code == CodeOfDraw(ds[n]) IN
         IF MapHas(reg.joinCodes, code)
           THEN generateJoinCode(reg, ds, n + 1)
           ELSE Some([code |-> code, draws |-> n])

\* getSessionByJoinCode without the trim() of line 125
getSessionByJoinCode_NoTrim(reg, joinCode) ==
  LET normalizedCode == toUpperCase(joinCode)
      sessionId == MapGet(reg.joinCodes, normalizedCode)
  IN  IF sessionId = Null
        THEN Null
        ELSE MapGet(reg.sessions, sessionId[1])

getSessionByJoinCode(reg, joinCode) ==
  LET normalizedCode == trim(toUpperCase(joinCode))
      sessionId == MapGet(reg.joinCodes, normalizedCode)
  IN  IF sessionId = Null
        THEN Null
        ELSE MapGet(reg.sessions, sessionId[1])

getSessionById(reg, sessionId) == MapGet(reg.sessions, sessionId)

\* the first code, in insertion order, that maps to sessionId
getJoinCode(reg, sessionId) ==
  LET hits == SelectSeq(reg.joinCodes, LAMBDA e : e.v = sessionId)
  IN  IF Len(hits) = 0 THEN Null ELSE Some(hits[1].k)

\* deleteSession whose loop over joinCodes lacks the test id === sessionId:
\* the first code of the map is removed
deleteSession_AnyCode(reg, sessionId) ==
  IF MapGet(reg.sessions, sessionId) = Null
    THEN [reg |-> reg, ret |-> FALSE]
    ELSE LET r1 == [reg EXCEPT !.joinCodes = Tail(@)]
             r2 == [r1 EXCEPT !.sessions = MapDelete(@, sessionId)]
             r3 == IF Len(r2.sessions) = 0 THEN stopCleanup(r2) ELSE r2
         IN  [reg |-> r3, ret |-> TRUE]

\* deleteSession: [reg, ret]
deleteSession(reg, sessionId) ==
  IF MapGet(reg.sessions, sessionId) = Null
    THEN [reg |-> reg, ret |-> FALSE]
    ELSE LET code == getJoinCode(reg, sessionId)
             r1 == IF code = Null
                     THEN reg
                     ELSE [reg EXCEPT !.joinCodes = MapDelete(@, code[1])]
             r2 == [r1 EXCEPT !.sessions = MapDelete(@, sessionId)]
             r3 == IF Len(r2.sessions) = 0 THEN stopCleanup(r2) ELSE r2
         IN  [reg |-> r3, ret |-> TRUE]

\* cleanupIfEmpty that only looks the session up and never deletes it
cleanupIfEmpty_Deferred(reg, sessionId) == reg

cleanupIfEmpty(reg, sessionId) ==
  LET session == MapGet(reg.sessions, sessionId)
  IN  IF session # Null /\ Len(session[1].participants) = 0
        THEN deleteSession(reg, sessionId).reg
        ELSE reg

\* createSession that binds the join code to the host's id instead of the session's
createSession_BindsHostId(reg, sessionId, hostId, ds) ==
  LET host == NewParticipant(hostId, FALSE)
      session == addParticipant(NewSession(sessionId, hostId), host).session
      r1 == [reg EXCEPT !.sessions = MapSet(@, sessionId, session)]
      gen == generateJoinCode(r1, ds, 1)
  IN  IF gen = Null
        THEN [returned |-> FALSE, reg |-> r1, session |-> session, host |-> host,
              joinCode |-> <<>>, draws |-> Len(ds)]
        ELSE [returned |-> TRUE,
              reg |-> startCleanup([r1 EXCEPT
                                      !.joinCodes = MapSet(@, gen[1].code, hostId)]),
              session |-> session, host |-> host,
              joinCode |-> gen[1].code, draws |-> gen[1].draws]

\* createSession with fresh ids and the draws ds of Math.random:
\* [reg, session, host, joinCode, draws]; returned is true when generateJoinCode
\* came back within the draws of ds
createSession(reg, sessionId, hostId, ds) ==
  LET host == NewParticipant(hostId, FALSE)
      session == addParticipant(NewSession(sessionId, hostId), host).session
      r1 == [reg EXCEPT !.sessions = MapSet(@, sessionId, session)]
      gen == generateJoinCode(r1, ds, 1)
  IN  IF gen = Null
        THEN [returned |-> FALSE, reg |-> r1, session |-> session, host |-> host,
              joinCode |-> <<>>, draws |-> Len(ds)]
        ELSE [returned |-> TRUE,
              reg |-> startCleanup([r1 EXCEPT
                                      !.joinCodes = MapSet(@, gen[1].code, sessionId)]),
              session |-> session, host |-> host,
              joinCode |-> gen[1].code, draws |-> gen[1].draws]

\* joinSession with the test of `added` inverted
joinSession_InvertedAdded(reg, joinCode, participantId, asObserver) ==
  LET session == getSessionByJoinCode(reg, joinCode) IN
  IF session = Null
    THEN [reg |-> reg, ret |-> Null, found |-> FALSE]
    ELSE LET participant == NewParticipant(participantId, asObserver)
             res == addParticipant(session[1], participant)
             r1 == [reg EXCEPT !.sessions = MapSet(@, session[1].id, res.session)]
         IN  IF res.added
               THEN [reg |-> r1, ret |-> Null, found |-> TRUE]
               ELSE [reg |-> r1,
                     ret |-> Some([session |-> res.session, participant |-> participant]),
                     found |-> TRUE]

\* joinSession that drops asObserver when it constructs the Participant
joinSession_NoObserver(reg, joinCode, participantId, asObserver) ==
  LET session == getSessionByJoinCode(reg, joinCode) IN
  IF session = Null
    THEN [reg |-> reg, ret |-> Null, found |-> FALSE]
    ELSE LET participant == NewParticipant(participantId, FALSE)
             res == addParticipant(session[1], participant)
             r1 == [reg EXCEPT !.sessions = MapSet(@, session[1].id, res.session)]
         IN  IF ~res.added
               THEN [reg |-> r1, ret |-> Null, found |-> TRUE]
               ELSE [reg |-> r1,
                     ret |-> Some([session |-> res.session, participant |-> participant]),
                     found |-> TRUE]

\* joinSession: [reg, ret, found]; ret is Null or <<[session, participant]>>,
\* found tells whether a Participant was constructed
joinSession(reg, joinCode, participantId, asObserver) ==
  LET session == getSessionByJoinCode(reg, joinCode) IN
  IF session = Null
    THEN [reg |-> reg, ret |-> Null, found |-> FALSE]
    ELSE LET participant == NewParticipant(participantId, asObserver)
             res == addParticipant(session[1], participant)
             r1 == [reg EXCEPT !.sessions = MapSet(@, session[1].id, res.session)]
         IN  IF ~res.added
               THEN [reg |-> r1, ret |-> Null, found |-> TRUE]
               ELSE [reg |-> r1,
                     ret |-> Some([session |-> res.session, participant |-> participant]),
                     found |-> TRUE]

\* leaveSession that calls cleanupIfEmpty whatever deleteWhenEmpty says
leaveSession_IgnoresConfig(reg, sessionId, participantId) ==
  LET session == MapGet(reg.sessions, sessionId) IN
  IF session = Null
    THEN [reg |-> reg, ret |-> FALSE]
    ELSE LET res == removeParticipant(session[1], participantId)
             r1 == [reg EXCEPT !.sessions = MapSet(@, sessionId, res.session)]
             r2 == IF res.removed
                     THEN cleanupIfEmpty(r1, sessionId)
                     ELSE r1
         IN  [reg |-> r2, ret |-> res.removed]

\* leaveSession that returns true whenever the session exists
leaveSession_AlwaysTrue(reg, sessionId, participantId) ==
  LET session == MapGet(reg.sessions, sessionId) IN
  IF session = Null
    THEN [reg |-> reg, ret |-> FALSE]
    ELSE LET res == removeParticipant(session[1], participantId)
             r1 == [reg EXCEPT !.sessions = MapSet(@, sessionId, res.session)]
             r2 == IF res.removed /\ cleanupConfig.deleteWhenEmpty
                     THEN cleanupIfEmpty(r1, sessionId)
                     ELSE r1
         IN  [reg |-> r2, ret |-> TRUE]

\* leaveSession: [reg, ret]
leaveSession(reg, sessionId, participantId) ==
  LET session == MapGet(reg.sessions, sessionId) IN
  IF session = Null
    THEN [reg |-> reg, ret |-> FALSE]
    ELSE LET res == removeParticipant(session[1], participantId)
             r1 == [reg EXCEPT !.sessions = MapSet(@, sessionId, res.session)]
             r2 == IF res.removed /\ cleanupConfig.deleteWhenEmpty
                     THEN cleanupIfEmpty(r1, sessionId)
                     ELSE r1
         IN  [reg |-> r2, ret |-> res.removed]

\* the loop body with the idle test written >= instead of >
cleanupEntry_AtThreshold(reg, sessionId) ==
  LET session == MapGet(reg.sessions, sessionId)[1] IN
  IF cleanupConfig.deleteWhenEmpty /\ Len(session.participants) = 0
    THEN deleteSession(reg, sessionId).reg
    ELSE IF now - session.updatedAt >= cleanupConfig.maxInactivity
           THEN deleteSession(reg, sessionId).reg
           ELSE reg

\* the body of the for-of loop of performCleanup for one entry
cleanupEntry(reg, sessionId) ==
  LET session == MapGet(reg.sessions, sessionId)[1] IN
  IF cleanupConfig.deleteWhenEmpty /\ Len(session.participants) = 0
    THEN deleteSession(reg, sessionId).reg
    ELSE IF now - session.updatedAt > cleanupConfig.maxInactivity
           THEN deleteSession(reg, sessionId).reg
           ELSE reg

\* the for-of loop over sessions.entries(): the iterator is live, it walks the
\* entries in insertion order and passes over an entry deleted before it is
\* reached; keys are the keys at the start, i the position, visited the ids
\* the body ran for
RECURSIVE cleanupLoop(_, _, _, _)
cleanupLoop(reg, keys, i, visited) ==
  IF i > Len(keys)
    THEN [reg |-> reg, visited |-> visited]
    ELSE IF ~MapHas(reg.sessions, keys[i])
           THEN cleanupLoop(reg, keys, i + 1, visited)
           ELSE cleanupLoop(cleanupEntry(reg, keys[i]), keys, i + 1,
                            Append(visited, keys[i]))

\* the loop of performCleanup over positions of the shrinking entry list, as an
\* index loop over an array would run: after a deletion the next entry slides
\* into the current position and is passed over
RECURSIVE cleanupArrayLoop(_, _, _)
cleanupArrayLoop(reg, i, visited) ==
  IF i > Len(reg.sessions)
    THEN [reg |-> reg, visited |-> visited]
    ELSE cleanupArrayLoop(cleanupEntry(reg, reg.sessions[i].k), i + 1,
                          Append(visited, reg.sessions[i].k))

performCleanup_IndexLoop(reg) == cleanupArrayLoop(reg, 1, <<>>)

\* performCleanup: [reg, visited]
performCleanup(reg) == cleanupLoop(reg, MapKeys(reg.sessions), 1, <<>>)

(***************************************************************************)
(* The record of the last call: the operation, its result (ok: true, or not *)
(* null) and the arguments and results the properties below refer to.  A   *)
(* call that fails keeps the session id or the code it was given; the      *)
(* participant id and the observer flag are recorded for calls that        *)
(* succeed.                                                                *)
(***************************************************************************)
Call(op) ==
  [op |-> op, sid |-> 0, pid |-> 0, code |-> <<>>, obs |-> FALSE,
   ok |-> FALSE, draws |-> 0, visited |-> <<>>]

SessionIds == 1..MaxSessions
ParticipantIds == 1..MaxParticipants

(***************************************************************************)
(* Initial state: getInstance(config) has constructed the registry.        *)
(***************************************************************************)
Init ==
  /\ sessions = <<>>
  /\ joinCodes = <<>>
  /\ cleanupConfig \in { MergeConfig(c) : c \in ConfigOverrides }
  /\ cleanupIntervalId = NoTimer
  /\ timers = {}
  /\ nextTimerId = 1
  /\ nextSessionId = 1
  /\ nextParticipantId = 1
  /\ now = 0
  /\ last = Call("getInstance")
  /\ ChannelLoaded
  /\ RoundIdle

(***************************************************************************)
(* Actions: one per public method, one for the interval callback.          *)
(***************************************************************************)
\* every code Math.random can produce is bound to a session
CodeSpaceFull(reg) == \A c \in AllCodes : MapHas(reg.joinCodes, c)

\* createSession over every sequence of draws. A call whose draws all collide
\* does not come back (generateJoinCode recurses until the stack is used up):
\* the session of line 90 stays stored, lines 94 and 97 are not reached.
\* Session ids stop at MaxSessions; one call more is followed for a registry
\* whose code space is occupied.
CreateSession ==
  /\ \/ nextSessionId <= MaxSessions
     \/ nextSessionId = MaxSessions + 1 /\ CodeSpaceFull(Reg)
  /\ nextParticipantId <= MaxParticipants
  /\ \E ds \in DrawSeqs :
       \E res \in { createSession(Reg, nextSessionId, nextParticipantId, ds) } :
         /\ SetReg(res.reg)
         /\ last' = IF res.returned
                       THEN [Call("createSession") EXCEPT
                               !.sid = res.session.id, !.pid = res.host.id,
                               !.code = res.joinCode, !.ok = TRUE,
                               !.draws = res.draws]
                       ELSE [Call("createSession") EXCEPT
                               !.sid = res.session.id, !.draws = res.draws]
  /\ nextSessionId' = nextSessionId + 1
  /\ nextParticipantId' = nextParticipantId + 1
  /\ UNCHANGED << svars, cvars, cleanupConfig, now >>

JoinSession ==
  \E joinCode \in JoinInputs, asObserver \in BOOLEAN :
    /\ nextParticipantId <= MaxParticipants
    /\ \E res \in { joinSession(Reg, joinCode, nextParticipantId, asObserver) } :
       /\ SetReg(res.reg)
       /\ nextParticipantId' = IF res.found THEN nextParticipantId + 1
                                            ELSE nextParticipantId
       /\ last' = [Call("joinSession") EXCEPT
                     !.code = joinCode, !.obs = (res.ret # Null /\ asObserver),
                     !.ok = (res.ret # Null),
                     !.sid = IF res.ret # Null THEN res.ret[1].session.id ELSE 0,
                     !.pid = IF res.ret # Null THEN res.ret[1].participant.id ELSE 0]
    /\ UNCHANGED << svars, cvars, cleanupConfig, nextSessionId, now >>

LeaveSession ==
  \E sessionId \in SessionIds, participantId \in ParticipantIds :
    /\ \E res \in { leaveSession(Reg, sessionId, participantId) } :
       /\ SetReg(res.reg)
       /\ last' = [Call("leaveSession") EXCEPT
                     !.sid = sessionId, !.ok = res.ret,
                     !.pid = IF res.ret THEN participantId ELSE 0]
    /\ UNCHANGED << svars, cvars, cleanupConfig, nextSessionId, nextParticipantId, now >>

DeleteSession ==
  \E sessionId \in SessionIds :
    /\ \E res \in { deleteSession(Reg, sessionId) } :
       /\ SetReg(res.reg)
       /\ last' = [Call("deleteSession") EXCEPT !.sid = sessionId, !.ok = res.ret]
    /\ UNCHANGED << svars, cvars, cleanupConfig, nextSessionId, nextParticipantId, now >>

\* the callback of an active interval timer runs performCleanup
CleanupTick ==
  \E t \in timers :
    /\ \E res \in { performCleanup(Reg) } :
           /\ SetReg(res.reg)
           /\ last' = [Call("performCleanup") EXCEPT !.visited = res.visited]
    /\ UNCHANGED << svars, cvars, cleanupConfig, nextSessionId, nextParticipantId, now >>

\* a session is marked completed (host action on the session object)
CompleteSession ==
  \E i \in 1..Len(sessions) :
    /\ sessions[i].v.status # "completed"
    /\ sessions' = MapSet(sessions, sessions[i].k, complete(sessions[i].v))
    /\ last' = [Call("complete") EXCEPT !.sid = sessions[i].k, !.ok = TRUE]
    /\ UNCHANGED << svars, cvars, joinCodes, cleanupConfig, cleanupIntervalId, timers, nextTimerId,
                    nextSessionId, nextParticipantId, now >>

\* time passes
AdvanceTime ==
  /\ now < MaxTime
  /\ now' = now + 1
  /\ last' = Call("clock")
  /\ UNCHANGED << svars, cvars, sessions, joinCodes, cleanupConfig, cleanupIntervalId, timers,
                  nextTimerId, nextSessionId, nextParticipantId >>

Next ==
  \/ CreateSession
  \/ JoinSession
  \/ LeaveSession
  \/ DeleteSession
  \/ CleanupTick
  \/ CompleteSession
  \/ AdvanceTime

Spec == Init /\ [][Next]_<< vars, cvars, svars >>

(***************************************************************************)
(* The channel: useWebSocket (app/types/index.ts:85-286).                  *)
(***************************************************************************)
\* WebSocket objects and pending reconnect callbacks alive at one time
MaxSockets == 2
\* setInterval handles alive at one time
MaxIntervals == 2
\* useWebSocket() calls
MaxInstances == 2

\* lines 95-100: the defaults of the options
DefaultOptions ==
  [autoConnect |-> TRUE, autoReconnect |-> TRUE,
   maxReconnectAttempts |-> 5, reconnectDelay |-> 1000]

\* lines 95-100: the destructuring of the options object
MergeOptions(options) ==
  [f \in DOMAIN DefaultOptions |->
     IF f \in DOMAIN options THEN options[f] ELSE DefaultOptions[f]]

\* the options objects passed to useWebSocket
OptionObjects ==
  { <<>>,
    [autoConnect |-> FALSE, autoReconnect |-> FALSE,
     maxReconnectAttempts |-> 1, reconnectDelay |-> 500] }

\* the module state and the runtime objects the functions of an instance work on
Chan ==
  [ws |-> globalWs, attempts |-> globalReconnectAttempts,
   timer |-> globalReconnectTimer, ping |-> globalPingInterval,
   handlers |-> globalHandlers, status |-> globalStatus,
   sockets |-> sockets, timeouts |-> timeouts, intervals |-> intervals]

\* a WebSocket that is CLOSED raises no more events: it is kept only while
\* globalWs refers to it
SetChan(ch) ==
  /\ globalWs' = ch.ws
  /\ globalReconnectAttempts' = ch.attempts
  /\ globalReconnectTimer' = ch.timer
  /\ globalPingInterval' = ch.ping
  /\ globalHandlers' = ch.handlers
  /\ globalStatus' = ch.status
  /\ sockets' = { so \in ch.sockets : so.readyState # "CLOSED" \/ so.id = ch.ws }
  /\ timeouts' = ch.timeouts
  /\ intervals' = ch.intervals

\* the smallest handle not in use
FreshHandle(used) ==
  CHOOSE n \in 1..(Cardinality(used) + 1) :
    n \notin used /\ \A m \in 1..(n - 1) : m \in used

SocketIds(ch) == { so.id : so \in ch.sockets }

\* globalWs?.readyState; "undefined" when globalWs is null
readyState(ch, id) ==
  IF id \in SocketIds(ch)
    THEN (CHOOSE so \in ch.sockets : so.id = id).readyState
    ELSE "undefined"

SetReadyState(ch, id, rs) ==
  [ch EXCEPT !.sockets =
     { IF so.id = id THEN [so EXCEPT !.readyState = rs] ELSE so : so \in @ }]

\* WebSocket.close(): a socket that is connecting or open starts closing, its
\* close event comes later
close(ch, id) ==
  IF readyState(ch, id) \in { "CONNECTING", "OPEN" }
    THEN SetReadyState(ch, id, "CLOSING")
    ELSE ch

\* lines 131-139, called on instance inst, whose handlers the new socket gets
\* (lines 140-183). The constructor throws for a malformed URL only, which
\* the URL of line 115 is not: the catch of lines 185-188 is not entered.
\* by: what ran connect (a call, the onMounted callback, a reconnect timer),
\* kept with the socket for the properties.
connect(ch, inst, by) ==
  IF readyState(ch, ch.ws) = "OPEN"
    THEN ch
    ELSE LET id == FreshHandle(SocketIds(ch)) IN
         [ch EXCEPT !.status = "connecting", !.ws = id,
                    !.sockets = @ \cup { [id |-> id, readyState |-> "CONNECTING",
                                          inst |-> inst, by |-> by] }]

\* lines 194-199
cleanup(ch) ==
  IF ch.ping # 0
    THEN [ch EXCEPT !.intervals = @ \ { ch.ping }, !.ping = 0]
    ELSE ch

\* onopen without the reset of line 142
onopen_NoReset(ch) ==
  LET h == FreshHandle(ch.intervals) IN
  [ch EXCEPT !.status = "connected",
             !.ping = h, !.intervals = @ \cup { h }]

\* lines 140-151: the open event of a socket
onopen(ch) ==
  LET h == FreshHandle(ch.intervals) IN
  [ch EXCEPT !.status = "connected", !.attempts = 0,
             !.ping = h, !.intervals = @ \cup { h }]

\* the delay growing by reconnectDelay with every attempt
ReconnectDelay_Linear(opts, attempts) == opts.reconnectDelay * attempts

\* line 171
ReconnectDelay(opts, attempts) == opts.reconnectDelay * Pow(2, attempts - 1)

\* lines 163-178: the close event of a socket whose handlers were set by the
\* connect of instance inst with options opts
onclose(ch, inst, opts) ==
  LET c1 == cleanup([ch EXCEPT !.status = "disconnected"]) IN
  IF opts.autoReconnect /\ c1.attempts < opts.maxReconnectAttempts
    THEN LET t == FreshHandle({ to.id : to \in c1.timeouts }) IN
         [c1 EXCEPT !.attempts = @ + 1,
                    !.timer = t,
                    !.timeouts = @ \cup { [id |-> t, inst |-> inst,
                                           delay |-> ReconnectDelay(opts, c1.attempts + 1)] }]
    ELSE c1

\* lines 180-183
onerror(ch) == [ch EXCEPT !.status = "error"]

\* lines 204-219, called on an instance with options opts
disconnect(ch, opts) ==
  LET c1 == IF ch.timer # 0
              THEN [ch EXCEPT !.timeouts = { to \in @ : to.id # ch.timer },
                              !.timer = 0]
              ELSE ch
      c2 == [cleanup(c1) EXCEPT !.attempts = opts.maxReconnectAttempts]
      c3 == IF c2.ws # 0 THEN [close(c2, c2.ws) EXCEPT !.ws = 0] ELSE c2
  IN  [c3 EXCEPT !.status = "disconnected"]

\* send without the test of lines 225-228
send_NoGuard(ch, type, payload, timestamp) ==
  [sent |-> << [sock |-> ch.ws, type |-> type, payload |-> payload,
                timestamp |-> timestamp] >>,
   warned |-> FALSE]

\* lines 224-237: the channel is left as it is, sent is what goes to the wire
send(ch, type, payload, timestamp) ==
  IF readyState(ch, ch.ws) # "OPEN"
    THEN [sent |-> <<>>, warned |-> TRUE]
    ELSE [sent |-> << [sock |-> ch.ws, type |-> type, payload |-> payload,
                       timestamp |-> timestamp] >>,
          warned |-> FALSE]

InstanceIds == 1..Len(instances)

\* what the callers of send pass
ClientTypes == { "session:create" }
Payloads == { "p" }

\* the runtime holds at most MaxSockets sockets and reconnect callbacks and
\* MaxIntervals intervals
WithinBounds(ch) ==
  /\ Cardinality({ so \in ch.sockets : so.readyState # "CLOSED" })
       + Cardinality(ch.timeouts) <= MaxSockets
  /\ Cardinality(ch.intervals) <= MaxIntervals

\* the registry is not used by the channel: it stays as constructed
RegistryIdle ==
  /\ sessions = <<>> /\ joinCodes = <<>>
  /\ cleanupConfig = DEFAULT_CLEANUP_CONFIG
  /\ cleanupIntervalId = NoTimer /\ timers = {} /\ nextTimerId = 1
  /\ nextSessionId = 1 /\ nextParticipantId = 1
  /\ now = 0
  /\ last = Call("getInstance")

ChannelInit == ChannelLoaded /\ RegistryIdle /\ RoundIdle

\* lines 94-100, 267-276: useWebSocket(options)
UseWebSocket ==
  /\ Len(instances) < MaxInstances
  /\ \E o \in OptionObjects :
       LET opts == MergeOptions(o) IN
       /\ instances' = Append(instances, opts)
       /\ IF opts.autoConnect /\ ~isInitialized
            THEN isInitialized' = TRUE /\ pendingMount' = Len(instances) + 1
            ELSE UNCHANGED << isInitialized, pendingMount >>
       /\ clast' = [CCall("useWebSocket") EXCEPT !.inst = Len(instances) + 1]
  /\ UNCHANGED << svars, vars, registrations, globalWs, globalReconnectAttempts, globalReconnectTimer,
                  globalPingInterval, globalHandlers, globalStatus, sockets,
                  timeouts, intervals, halted >>

\* what a run of connect leaves behind
Connected(op, inst) ==
  \E ch \in { connect(Chan, inst, op) } :
    /\ WithinBounds(ch)
    /\ SetChan(ch)
    /\ clast' = [CCall(op) EXCEPT
                   !.inst = inst,
                   !.created = IF ch.sockets # sockets THEN ch.ws ELSE 0]

\* lines 270-272: the onMounted callback
Mounted ==
  /\ pendingMount # 0
  /\ Connected("mounted", pendingMount)
  /\ pendingMount' = 0
  /\ halted' = FALSE
  /\ UNCHANGED << svars, vars, registrations, isInitialized, instances >>

\* connect() called on an instance
Connect ==
  /\ \E inst \in InstanceIds : Connected("connect", inst)
  /\ halted' = FALSE
  /\ UNCHANGED << svars, vars, registrations, isInitialized, instances, pendingMount >>

\* the callback of a reconnect timer, lines 174-176
ReconnectFires ==
  /\ \E to \in timeouts :
       \E ch \in { connect([Chan EXCEPT !.timeouts = @ \ { to }], to.inst, "reconnect") } :
         /\ SetChan(ch)
         /\ clast' = [CCall("reconnect") EXCEPT
                        !.inst = to.inst,
                        !.created = IF ch.sockets # sockets THEN ch.ws ELSE 0]
  /\ UNCHANGED << svars, vars, registrations, isInitialized, instances, pendingMount, halted >>

\* disconnect() called on an instance
Disconnect ==
  /\ \E inst \in InstanceIds :
       /\ SetChan(disconnect(Chan, instances[inst]))
       /\ clast' = [CCall("disconnect") EXCEPT !.inst = inst, !.sock = globalWs]
  /\ halted' = TRUE
  /\ UNCHANGED << svars, vars, registrations, isInitialized, instances, pendingMount >>

\* send(type, payload) called on any instance (send reads no option);
\* Date.now() is the clock of the registry model
Send ==
  /\ instances # <<>>
  /\ \E type \in ClientTypes, payload \in Payloads :
       clast' = [CCall("send") EXCEPT
                   !.sock = globalWs,
                   !.sent = send(Chan, type, payload, now).sent]
  /\ UNCHANGED << svars, vars, registrations, globalWs, globalReconnectAttempts, globalReconnectTimer,
                  globalPingInterval, globalHandlers, globalStatus, isInitialized,
                  instances, pendingMount, sockets, timeouts, intervals, halted >>

\* the callback of a ping interval, lines 146-150
PingFires ==
  /\ intervals # {}
  /\ clast' = [CCall("ping") EXCEPT
                 !.sock = globalWs,
                 !.sent = IF readyState(Chan, globalWs) = "OPEN"
                            THEN send(Chan, "ping", "{}", now).sent
                            ELSE <<>>]
  /\ UNCHANGED << svars, vars, registrations, globalWs, globalReconnectAttempts, globalReconnectTimer,
                  globalPingInterval, globalHandlers, globalStatus, isInitialized,
                  instances, pendingMount, sockets, timeouts, intervals, halted >>

\* the connection of a socket is established: its open event
SocketOpen ==
  /\ \E so \in sockets :
       /\ so.readyState = "CONNECTING"
       /\ \E ch \in { onopen(SetReadyState(Chan, so.id, "OPEN")) } :
            /\ WithinBounds(ch)
            /\ SetChan(ch)
            /\ clast' = [CCall("onopen") EXCEPT !.inst = so.inst, !.sock = so.id]
  /\ UNCHANGED << svars, vars, registrations, isInitialized, instances, pendingMount, halted >>

\* the connection of a socket ends (it failed, was dropped, or was closed by
\* either side): the error event, if there is one, and the close event are
\* raised by the same task
SocketClose ==
  /\ \E so \in sockets, failed \in BOOLEAN :
       /\ so.readyState # "CLOSED"
       /\ so.readyState = "CONNECTING" => failed
       /\ \E c1 \in { SetReadyState(Chan, so.id, "CLOSED") } :
            \E ch \in { onclose(IF failed THEN onerror(c1) ELSE c1,
                                so.inst, instances[so.inst]) } :
              /\ SetChan(ch)
              /\ clast' = [CCall("onclose") EXCEPT
                             !.inst = so.inst, !.sock = so.id,
                             !.was = so.readyState,
                             !.scheduled =
                               IF ch.timeouts # timeouts
                                 THEN (CHOOSE to \in ch.timeouts : to.id = ch.timer).delay
                                 ELSE 0]
  /\ UNCHANGED << svars, vars, registrations, isInitialized, instances, pendingMount, halted >>

ChannelNext ==
  \/ UseWebSocket
  \/ Mounted
  \/ Connect
  \/ ReconnectFires
  \/ Disconnect
  \/ Send
  \/ PingFires
  \/ SocketOpen
  \/ SocketClose

SpecChannel == ChannelInit /\ [][ChannelNext]_<< vars, cvars, svars >>

\* the event of the transport id, which is connecting or closing: its
\* connection attempt or its closing handshake comes to an end
SocketSettles(id) ==
  /\ \E so \in sockets : so.id = id /\ so.readyState # "OPEN"
  /\ SocketOpen \/ SocketClose
  /\ clast'.sock = id

\* the callback of the reconnect timer id runs
TimerFires(id) ==
  /\ ReconnectFires
  /\ \E to \in timeouts : to.id = id /\ to \notin timeouts'

\* the channel with the scheduling of the event loop: every pending reconnect
\* timer fires, every transport that is connecting or closing raises its
\* event.  Calls of connect(), disconnect() and send() and the loss of an open
\* connection happen or not.
SpecChannelFair ==
  /\ ChannelInit
  /\ [][ChannelNext]_<< vars, cvars, svars >>
  /\ \A id \in 1..(MaxSockets + 1) :
       /\ WF_<< vars, cvars, svars >>(TimerFires(id))
       /\ WF_<< vars, cvars, svars >>(SocketSettles(id))

(***************************************************************************)
(* Dispatch: on, once, emitEvent and the message event                     *)
(* (app/types/index.ts:121-126, 153-161, 242-265).                         *)
(***************************************************************************)
\* handlers one type holds at a time
MaxHandlers == 2
\* wrappedHandlers of once registered at a time
MaxWrappers == 1

ServerTypes == { "session:updated", "vote:revealed" }

\* the functions the callers of on and once pass, and what each does when it
\* is invoked: nothing to the channel, throw, call the unsubscribe function
\* that on('session:updated', plain) returned, call on('session:updated', plain)
HandlerFns == { "plain", "thrower", "remover", "adder" }

\* an entry of a Set<MessageHandler>: the function passed to on (once = 0) or
\* the n-th wrappedHandler made by once around it
Entry(fn, n) == [fn |-> fn, once |-> n]

\* the handlers registered for a type in registration order, <<>> if none
HandlersOf(hs, type) ==
  IF MapHas(hs, type) THEN MapGet(hs, type)[1] ELSE <<>>

Elems(seq) == { seq[i] : i \in 1..Len(seq) }

\* lines 242-247: Set.add keeps an entry that is there already in its place
on(hs, type, e) ==
  IF e \in Elems(HandlersOf(hs, type))
    THEN MapSet(hs, type, HandlersOf(hs, type))
    ELSE MapSet(hs, type, Append(HandlersOf(hs, type), e))

\* lines 250-252 and 261: handlers.get(type)?.delete(handler)
unsubscribe(hs, type, e) ==
  IF MapHas(hs, type)
    THEN MapSet(hs, type, SelectSeq(HandlersOf(hs, type), LAMBDA x : x # e))
    ELSE hs

\* the call of one entry: the body of its function, then, for a wrappedHandler
\* of once whose handler came back, line 261
RunHandler(hs, type, e) ==
  LET h1 == CASE e.fn = "remover" -> unsubscribe(hs, "session:updated", Entry("plain", 0))
              [] e.fn = "adder" -> on(hs, "session:updated", Entry("plain", 0))
              [] OTHER -> hs
      threw == e.fn = "thrower"
  IN  [handlers |-> IF e.once # 0 /\ ~threw THEN unsubscribe(h1, type, e) ELSE h1,
       threw |-> threw]

\* line 124, Set.forEach from the i-th entry on: entries are visited in
\* insertion order, an entry deleted before its turn is not visited, an entry
\* added during the walk is; a handler that throws ends the walk
RECURSIVE forEach(_, _, _, _, _)
forEach(hs, type, payload, i, invoked) ==
  LET list == HandlersOf(hs, type) IN
  IF i > Len(list)
    THEN [handlers |-> hs, invoked |-> invoked, threw |-> FALSE]
    ELSE LET r == RunHandler(hs, type, list[i])
             inv == Append(invoked, [handler |-> list[i], payload |-> payload])
             before == { list[j] : j \in 1..i } \cap Elems(HandlersOf(r.handlers, type))
         IN  IF r.threw
               THEN [handlers |-> r.handlers, invoked |-> inv, threw |-> TRUE]
               ELSE forEach(r.handlers, type, payload, Cardinality(before) + 1, inv)

\* lines 121-126
emitEvent(hs, type, payload) ==
  IF MapHas(hs, type)
    THEN forEach(hs, type, payload, 1, <<>>)
    ELSE [handlers |-> hs, invoked |-> <<>>, threw |-> FALSE]

\* what arrives in event.data: the JSON text of a message, or text JSON.parse
\* rejects
Inbound ==
  { [wellFormed |-> TRUE, type |-> t, payload |-> "p"] : t \in ServerTypes }
    \cup { [wellFormed |-> FALSE] }

\* onmessage with the text JSON.parse rejects handed to the handlers of
\* 'session:updated'
onmessage_DispatchesMalformed(hs, data) ==
  LET r == emitEvent(hs, "session:updated", "p") IN
  [handlers |-> r.handlers, invoked |-> r.invoked, caught |-> r.threw]

\* lines 153-161: whatever is thrown, by JSON.parse or by a handler, is caught
\* and logged
onmessage(hs, data) ==
  IF data.wellFormed
    THEN LET r == emitEvent(hs, data.type, data.payload) IN
         [handlers |-> r.handlers, invoked |-> r.invoked, caught |-> r.threw]
    ELSE [handlers |-> hs, invoked |-> <<>>, caught |-> TRUE]

\* the serials of the wrappedHandlers that are registered
Wrappers(hs) ==
  { e.once : e \in UNION { Elems(hs[i].v) : i \in 1..Len(hs) } } \ { 0 }

\* the channel after useWebSocket(), the onMounted connect and the open event
DispatchInit ==
  /\ RegistryIdle
  /\ globalWs = 1
  /\ globalReconnectAttempts = 0
  /\ globalReconnectTimer = 0
  /\ globalPingInterval = 1
  /\ globalHandlers = <<>>
  /\ globalStatus = "connected"
  /\ isInitialized = TRUE
  /\ instances = << DefaultOptions >>
  /\ pendingMount = 0
  /\ sockets = { [id |-> 1, readyState |-> "OPEN", inst |-> 1, by |-> "mounted"] }
  /\ timeouts = {}
  /\ intervals = { 1 }
  /\ halted = FALSE
  /\ registrations = {}
  /\ clast = [CCall("onopen") EXCEPT !.inst = 1, !.sock = 1]
  /\ RoundIdle

\* the functions returned by on that callers hold at a time
MaxUnsubscribers == 2

\* the registrations whose callers keep what on returns: those of
\* on('session:updated', plain)
KeptTypes == { "session:updated" }
KeptFns == { "plain" }

\* the function lines 250-252 return: a closure over type and handler; called
\* records that the caller has called it
Unsubscriber(id, type, fn) == [id |-> id, type |-> type, fn |-> fn, called |-> FALSE]

\* on(type, handler) called on any instance; the caller keeps the function
\* on returns or drops it
On ==
  /\ \E type \in ServerTypes, fn \in HandlerFns, keep \in BOOLEAN :
       /\ globalHandlers' = on(globalHandlers, type, Entry(fn, 0))
       /\ Len(HandlersOf(globalHandlers', type)) <= MaxHandlers
       /\ IF keep
            THEN /\ type \in KeptTypes
                 /\ fn \in KeptFns
                 /\ Cardinality(registrations) < MaxUnsubscribers
                 /\ \E u \in { Unsubscriber(FreshHandle({ r.id : r \in registrations }),
                                             type, fn) } :
                      registrations' = registrations \cup { u }
            ELSE UNCHANGED registrations
       /\ clast' = CCall("on")
  /\ UNCHANGED << svars, vars, globalWs, globalReconnectAttempts, globalReconnectTimer,
                  globalPingInterval, globalStatus, isInitialized, instances,
                  pendingMount, sockets, timeouts, intervals, halted >>

\* lines 258-265: once(type, handler) called on any instance
Once ==
  /\ \E type \in ServerTypes, fn \in HandlerFns :
       /\ Cardinality(Wrappers(globalHandlers)) < MaxWrappers
       /\ globalHandlers' =
            on(globalHandlers, type, Entry(fn, FreshHandle(Wrappers(globalHandlers))))
       /\ Len(HandlersOf(globalHandlers', type)) <= MaxHandlers
       /\ clast' = CCall("once")
  /\ UNCHANGED << svars, vars, registrations, globalWs, globalReconnectAttempts, globalReconnectTimer,
                  globalPingInterval, globalStatus, isInitialized, instances,
                  pendingMount, sockets, timeouts, intervals, halted >>

\* a function returned by on(type, handler) is called; the caller drops it
\* after its second call
Unsubscribe ==
  /\ \E u \in registrations :
       /\ globalHandlers' = unsubscribe(globalHandlers, u.type, Entry(u.fn, 0))
       /\ registrations' =
            (registrations \ { u })
              \cup (IF u.called THEN {} ELSE { [u EXCEPT !.called = TRUE] })
       /\ clast' = [CCall("unsubscribe") EXCEPT !.reg = << u >>]
  /\ UNCHANGED << svars, vars, globalWs, globalReconnectAttempts, globalReconnectTimer,
                  globalPingInterval, globalStatus, isInitialized, instances,
                  pendingMount, sockets, timeouts, intervals, halted >>

\* the message event of an open socket
SocketMessage ==
  /\ \E so \in sockets, data \in Inbound :
       /\ so.readyState = "OPEN"
       /\ \E r \in { onmessage(globalHandlers, data) } :
            /\ globalHandlers' = r.handlers
            /\ clast' = [CCall("onmessage") EXCEPT
                           !.sock = so.id, !.msg = << data >>,
                           !.invoked = r.invoked, !.caught = r.caught]
  /\ UNCHANGED << svars, vars, registrations, globalWs, globalReconnectAttempts, globalReconnectTimer,
                  globalPingInterval, globalStatus, isInitialized, instances,
                  pendingMount, sockets, timeouts, intervals, halted >>

DispatchNext ==
  \/ On
  \/ Once
  \/ Unsubscribe
  \/ SocketMessage

SpecDispatch == DispatchInit /\ [][DispatchNext]_<< vars, cvars, svars >>

(***************************************************************************)
(* The rounds of a session: Session (modelled from the specification) and  *)
(* the components that raise the user intents, SessionControls, CardDeck   *)
(* and PokerCard.                                                          *)
(***************************************************************************)
\* participants of the session of the rounds
MaxMembers == 3

Statuses == { "waiting", "voting", "revealed", "completed" }

\* estimation values on the cards
PokerValues == { "5", "8" }

\* what the host types into the story and the description input
Stories == { <<>>, << " " >>, << " ", "A", " " >> }
Descriptions == { << " ", "d" >> }

\* round reset: every selectedValue back to null
resetVotes(participants) ==
  [i \in 1..Len(participants) |-> [participants[i] EXCEPT !.selectedValue = Null]]

\* waiting -> voting and revealed -> voting: the story is set, the votes are
\* reset; a status transition refreshes updatedAt
startVoting(session, story, description) ==
  IF session.status \in { "waiting", "revealed" }
    THEN [session EXCEPT !.status = "voting",
                         !.currentStory = Some(story),
                         !.currentDescription = Some(description),
                         !.participants = resetVotes(@),
                         !.updatedAt = now]
    ELSE session

\* reveal from any status
reveal_AnyStatus(session) ==
  [session EXCEPT !.status = "revealed", !.updatedAt = now]

\* voting -> revealed
reveal(session) ==
  IF session.status = "voting"
    THEN [session EXCEPT !.status = "revealed", !.updatedAt = now]
    ELSE session

\* the participant of an id, Null if there is none
ParticipantOf(session, participantId) ==
  IF HasParticipant(session, participantId)
    THEN Some(session.participants[
                CHOOSE i \in 1..Len(session.participants) :
                  session.participants[i].id = participantId])
    ELSE Null

\* whether a vote of the participant is accepted
AcceptsVote(session, participantId) ==
  /\ session.status = "voting"
  /\ ParticipantOf(session, participantId) # Null
  /\ ~ParticipantOf(session, participantId)[1].isObserver

\* vote submission accepted in every status
submitVote_AnyStatus(session, participantId, value) ==
  IF ParticipantOf(session, participantId) # Null
       /\ ~ParticipantOf(session, participantId)[1].isObserver
    THEN [session |->
            [session EXCEPT !.participants =
               [i \in 1..Len(@) |->
                  IF @[i].id = participantId
                    THEN [@[i] EXCEPT !.selectedValue = Some(value)]
                    ELSE @[i]]],
          accepted |-> TRUE]
    ELSE [session |-> session, accepted |-> FALSE]

\* vote submission: [session, accepted]; sets the selectedValue of the voter
\* and nothing else
submitVote(session, participantId, value) ==
  IF AcceptsVote(session, participantId)
    THEN [session |->
            [session EXCEPT !.participants =
               [i \in 1..Len(@) |->
                  IF @[i].id = participantId
                    THEN [@[i] EXCEPT !.selectedValue = Some(value)]
                    ELSE @[i]]],
          accepted |-> TRUE]
    ELSE [session |-> session, accepted |-> FALSE]

\* all-votes-in with observers counted
allVotesIn_CountsObservers(session) ==
  \A i \in 1..Len(session.participants) :
    session.participants[i].selectedValue # Null

\* "all votes in": every non-observer participant has a selectedValue
allVotesIn(session) ==
  \A i \in 1..Len(session.participants) :
    ~session.participants[i].isObserver =>
      session.participants[i].selectedValue # Null

\* the props of SessionControls (lines 130-139) the page derives from a
\* session for the client of participant userId
ControlProps(session, userId) ==
  [isHost |-> session.hostId = userId /\ HasParticipant(session, userId),
   status |-> session.status]

\* lines 176, 187, 226: the block of controls the template renders
RenderedControls(props) ==
  IF ~props.isHost THEN "none"
  ELSE IF props.status = "waiting" \/ props.status = "revealed" THEN "start"
  ELSE IF props.status = "voting" THEN "voting"
  ELSE "none"

\* handleStartVoting testing the input untrimmed
handleStartVoting_NoTrim(c) ==
  IF c.storyInput # <<>>
    THEN [emitted |-> << [story |-> trim(c.storyInput),
                          description |-> trim(c.descriptionInput)] >>,
          controls |-> [c EXCEPT !.storyInput = <<>>, !.descriptionInput = <<>>]]
    ELSE [emitted |-> <<>>, controls |-> c]

\* lines 166-172: [emitted, controls]; an empty string is falsy
handleStartVoting(c) ==
  IF trim(c.storyInput) # <<>>
    THEN [emitted |-> << [story |-> trim(c.storyInput),
                          description |-> trim(c.descriptionInput)] >>,
          controls |-> [c EXCEPT !.storyInput = <<>>, !.descriptionInput = <<>>]]
    ELSE [emitted |-> <<>>, controls |-> c]

\* the props of a PokerCard of the deck (PokerCard.vue lines 14-25)
CardProps ==
  [value : PokerValues, disabled : BOOLEAN, revealed : BOOLEAN]

\* PokerCard.vue lines 60-64: the values emitted with 'select'
handleClick(props) ==
  IF ~props.disabled /\ ~props.revealed THEN << props.value >> ELSE <<>>

\* CardDeck, lines 294-296: 'select' is passed on
handleSelect(value) == << value >>

\* the session createSession hands out: the host is its first participant
RoundInit ==
  /\ RegistryIdle
  /\ ChannelLoaded
  /\ round = addParticipant(NewSession(1, 1), NewParticipant(1, FALSE)).session
  /\ controls = [EmptyControls EXCEPT !.props = ControlProps(round, 1)]
  /\ slast = SCall("create")

\* VotingResult.vue lines 23-25: the participants who are no observers and
\* have a value, in the order of the prop
voters(participants) ==
  SelectSeq(participants, LAMBDA p : ~p.isObserver /\ p.selectedValue # Null)

\* VotingResult.vue lines 81-87
hasConsensus(participants) ==
  IF Len(voters(participants)) < 2
    THEN FALSE
    ELSE \A i \in 1..Len(voters(participants)) :
           voters(participants)[i].selectedValue = voters(participants)[1].selectedValue

\* the ids of the participants of the session
RoundIds == { round.participants[i].id : i \in 1..Len(round.participants) }

\* the snapshot of the session reaches the client of the creator
\* ('session:updated'), whose page renders SessionControls with it
RenderControls ==
  /\ controls.props # ControlProps(round, 1)
  /\ controls' = [controls EXCEPT !.props = ControlProps(round, 1)]
  /\ slast' = SCall("render")
  /\ UNCHANGED << vars, cvars, round >>

\* a participant joins (Session.addParticipant)
JoinRound ==
  /\ Len(round.participants) < MaxMembers
  /\ \E isObserver \in BOOLEAN :
       \E r \in { addParticipant(round, NewParticipant(FreshHandle(RoundIds), isObserver)) } :
         /\ round' = r.session
         /\ slast' = [SCall("join") EXCEPT !.accepted = r.added,
                                          !.pid = FreshHandle(RoundIds)]
  /\ UNCHANGED << vars, cvars, controls >>

\* a participant leaves (Session.removeParticipant)
LeaveRound ==
  /\ \E pid \in RoundIds :
       \E r \in { removeParticipant(round, pid) } :
         /\ round' = r.session
         /\ slast' = [SCall("leave") EXCEPT !.accepted = r.removed, !.pid = pid]
  /\ UNCHANGED << vars, cvars, controls >>

\* the host types into the inputs of the start block (v-model, lines 193, 205)
TypeStory ==
  /\ RenderedControls(controls.props) = "start"
  /\ \E story \in Stories, description \in Descriptions :
       controls' = [controls EXCEPT !.storyInput = story,
                                    !.descriptionInput = description]
  /\ slast' = SCall("input")
  /\ UNCHANGED << vars, cvars, round >>

\* click on "Neue Runde starten" or enter in the story input: the event
\* 'startVoting', if it is emitted, starts the round
StartVoting ==
  /\ RenderedControls(controls.props) = "start"
  /\ \E h \in { handleStartVoting(controls) } :
       /\ round' = IF h.emitted # <<>>
                     THEN startVoting(round, h.emitted[1].story, h.emitted[1].description)
                     ELSE round
       /\ controls' = h.controls
       /\ slast' = [SCall("startVoting") EXCEPT
                      !.emitted = h.emitted # <<>>,
                      !.accepted = h.emitted # <<>> /\ round.status \in { "waiting", "revealed" }]
  /\ UNCHANGED << vars, cvars >>

\* click on "Karten aufdecken" (line 236): the event 'reveal'
Reveal ==
  /\ RenderedControls(controls.props) = "voting"
  /\ round' = reveal(round)
  /\ slast' = [SCall("reveal") EXCEPT !.emitted = TRUE, !.accepted = round.status = "voting"]
  /\ UNCHANGED << vars, cvars, controls >>

\* click on "Zuruecksetzen" (line 245): the event 'reset', whose effect on the
\* session is given neither by the components nor by the specification
Reset ==
  /\ RenderedControls(controls.props) = "voting"
  /\ slast' = [SCall("reset") EXCEPT !.emitted = TRUE]
  /\ UNCHANGED << vars, cvars, round, controls >>

\* a participant, or a client that has left, clicks a card of the deck:
\* 'select', if it is emitted, submits the vote
SelectCard ==
  /\ \E pid \in 1..MaxMembers, props \in CardProps :
       \E values \in { handleClick(props) } :
         \E r \in { IF values # <<>>
                      THEN submitVote(round, pid, handleSelect(values[1])[1])
                      ELSE [session |-> round, accepted |-> FALSE] } :
           /\ round' = r.session
           /\ slast' = [SCall("select") EXCEPT
                          !.emitted = values # <<>>, !.accepted = r.accepted,
                          !.pid = pid]
  /\ UNCHANGED << vars, cvars, controls >>

\* the session is marked completed
CompleteRound ==
  /\ round.status # "completed"
  /\ round' = complete(round)
  /\ slast' = [SCall("complete") EXCEPT !.accepted = TRUE]
  /\ UNCHANGED << vars, cvars, controls >>

SessionNext ==
  \/ RenderControls
  \/ JoinRound
  \/ LeaveRound
  \/ TypeStory
  \/ StartVoting
  \/ Reveal
  \/ Reset
  \/ SelectCard
  \/ CompleteRound

SpecSession == RoundInit /\ [][SessionNext]_<< vars, cvars, svars >>

(***************************************************************************)
(* Properties of the registry.                                             *)
(***************************************************************************)
\* the sessions of a Map of sessions, as records, in insertion order
Live(m) == [i \in 1..Len(m) |-> m[i].v]

\* the participant ids of a session
MemberIds(session) ==
  { session.participants[i].id : i \in 1..Len(session.participants) }

\* the sweep's two reasons to delete a session
EmptyUnderPolicy(session) ==
  cleanupConfig.deleteWhenEmpty /\ Len(session.participants) = 0

Idle(session) == now - session.updatedAt > cleanupConfig.maxInactivity

\* C1: a join code returned by createSession resolves to the created session,
\* by code and by id, from the return of createSession on and for as long as
\* the session is live; no call and no sweep tick re-binds the code of a live
\* session.
C1_CodeBindingStable ==
  [][ /\ (last'.op = "createSession" /\ last'.ok) =>
           /\ ~MapHas(sessions, last'.sid)
           /\ getSessionByJoinCode(Reg', last'.code) # Null
           /\ getSessionByJoinCode(Reg', last'.code)[1].id = last'.sid
           /\ getSessionById(Reg', last'.sid) = getSessionByJoinCode(Reg', last'.code)
      /\ \A i \in 1..Len(joinCodes) :
           (MapHas(sessions, joinCodes[i].v) /\ MapHas(sessions', joinCodes[i].v)) =>
              \E found \in { getSessionByJoinCode(Reg', joinCodes[i].k) } :
                 /\ found # Null
                 /\ found[1].id = joinCodes[i].v
                 /\ getSessionById(Reg', joinCodes[i].v) = found
    ]_vars

\* a session is still resolved by its code and its id after another session,
\* created in between, was deleted
C1_Witness ==
  /\ last.op = "deleteSession" /\ last.ok
  /\ Len(sessions) = 1 /\ Len(joinCodes) = 1
  /\ sessions[1].k # last.sid
  /\ getSessionByJoinCode(Reg, joinCodes[1].k) = Some(sessions[1].v)
  /\ getSessionById(Reg, sessions[1].k) = Some(sessions[1].v)

\* C2: the code createSession gets from generateJoinCode is not a key of
\* joinCodes at that time: it is added as a new entry for the new session and
\* every live session keeps the code it had, so that after every step no two
\* live sessions have the same join code.
C2_UniqueJoinCodes ==
  [][ /\ (last'.op = "createSession" /\ last'.ok) =>
           /\ ~MapHas(joinCodes, last'.code)
           /\ joinCodes' = Append(joinCodes, [k |-> last'.code, v |-> last'.sid])
           /\ \A i \in 1..Len(sessions) :
                getJoinCode(Reg', sessions[i].k) = getJoinCode(Reg, sessions[i].k)
      /\ \A i, j \in 1..Len(sessions') :
           (i # j /\ getJoinCode(Reg', sessions'[i].k) # Null) =>
              getJoinCode(Reg', sessions'[i].k) # getJoinCode(Reg', sessions'[j].k)
    ]_vars

\* a createSession whose first draw collided with a live code and was redrawn
C2_Witness ==
  /\ last.op = "createSession" /\ last.draws > 1
  /\ Len(sessions) = 2
  /\ getJoinCode(Reg, sessions[1].k) # getJoinCode(Reg, sessions[2].k)

\* C3: with deleteWhenEmpty, when a leaveSession that removes the only
\* participant of a session returns true, the session is gone: not found by
\* id, not found by its former code, and without a join code.
C3_LastLeaveDeletes ==
  [][ (/\ last'.op = "leaveSession" /\ last'.ok
       /\ cleanupConfig.deleteWhenEmpty
       /\ MapHas(sessions, last'.sid)
       /\ MemberIds(MapGet(sessions, last'.sid)[1]) = { last'.pid })
      => /\ getSessionById(Reg', last'.sid) = Null
         /\ getJoinCode(Reg', last'.sid) = Null
         /\ \A i \in 1..Len(joinCodes) :
              joinCodes[i].v = last'.sid =>
                getSessionByJoinCode(Reg', joinCodes[i].k) = Null
    ]_vars

\* the last participant of one of two sessions has left; that session is gone,
\* the other one is still there
C3_Witness ==
  /\ last.op = "leaveSession" /\ last.ok
  /\ cleanupConfig.deleteWhenEmpty
  /\ getSessionById(Reg, last.sid) = Null
  /\ Len(sessions) = 1

\* C4: a sweep tick deletes a non-empty session if and only if now - updatedAt
\* is strictly greater than maxInactivity.
C4_IdleThreshold ==
  [][ last'.op = "performCleanup" =>
        \A i \in 1..Len(sessions) :
          Len(sessions[i].v.participants) > 0 =>
            (MapHas(sessions', sessions[i].k)
               <=> now - sessions[i].v.updatedAt <= cleanupConfig.maxInactivity)
    ]_vars

\* a tick has deleted one of two non-empty sessions (with deleteWhenEmpty no
\* empty session is ever live) and spared the one idle for exactly maxInactivity
C4_Witness ==
  /\ last.op = "performCleanup"
  /\ cleanupConfig.deleteWhenEmpty
  /\ Len(last.visited) = 2
  /\ Len(sessions) = 1
  /\ now - sessions[1].v.updatedAt = cleanupConfig.maxInactivity

\* C5: a sweep tick runs its loop body exactly once for every session live at
\* its start, in map order; afterwards exactly the sessions that were empty
\* (under deleteWhenEmpty) or idle are gone with their codes, every other
\* session and code is unchanged, and the timer is stopped iff none is left.
C5_SweepIndependent ==
  [][ last'.op = "performCleanup" =>
        /\ last'.visited = MapKeys(sessions)
        /\ sessions' = SelectSeq(sessions,
                         LAMBDA e : ~(EmptyUnderPolicy(e.v) \/ Idle(e.v)))
        /\ joinCodes' = SelectSeq(joinCodes, LAMBDA e : MapHas(sessions', e.v))
        /\ IF Len(sessions') = 0
             THEN cleanupIntervalId' = NoTimer /\ timers' = {}
             ELSE cleanupIntervalId' = cleanupIntervalId /\ timers' = timers
    ]_vars

\* a tick deleted the first of two sessions and then evaluated and kept the second
C5_Witness ==
  /\ last.op = "performCleanup"
  /\ Len(last.visited) = 2
  /\ Len(sessions) = 1
  /\ sessions[1].k = last.visited[2]

\* C6: deleteSession of a live id returns true and removes that session and
\* exactly its join code; of any other id it returns false and changes neither
\* sessions, joinCodes nor the timer; a second call after a successful one is
\* such a call, so it leaves the registry as the first one left it.
C6_DeleteIdempotent ==
  [][ last'.op = "deleteSession" =>
        IF MapHas(sessions, last'.sid)
          THEN /\ last'.ok
               /\ sessions' = SelectSeq(sessions, LAMBDA e : e.k # last'.sid)
               /\ joinCodes' = SelectSeq(joinCodes, LAMBDA e : e.v # last'.sid)
               /\ deleteSession(Reg', last'.sid) = [reg |-> Reg', ret |-> FALSE]
          ELSE /\ ~last'.ok
               /\ sessions' = sessions
               /\ joinCodes' = joinCodes
               /\ cleanupIntervalId' = cleanupIntervalId
               /\ timers' = timers
    ]_vars

\* deleteSession returned false for the id of a session that is already gone,
\* while another session is live
C6_Witness ==
  /\ last.op = "deleteSession" /\ ~last.ok
  /\ last.sid < nextSessionId
  /\ ~MapHas(sessions, last.sid)
  /\ Len(sessions) = 1

\* C7: the reclamation timer is active iff the registry holds a session, and
\* it is the one timer whose handle is stored: no second timer is ever running.
C7_TimerIffSessions ==
  /\ cleanupIntervalId # NoTimer <=> Len(sessions) > 0
  /\ timers = IF Len(sessions) > 0 THEN { cleanupIntervalId } ELSE {}

\* a second session was created while the timer was running: still the one
\* timer that the first createSession started
C7_Witness ==
  /\ last.op = "createSession"
  /\ Len(sessions) = 2
  /\ nextTimerId = 2
  /\ timers = { cleanupIntervalId }

\* the join policy does not let a new participant into the session
Rejects(session) == session.status = "completed"

\* the participant lists of all sessions, by session id, in map order
Membership(m) == [i \in 1..Len(m) |-> [id |-> m[i].k, participants |-> m[i].v.participants]]

\* C8: joinSession returns null when the code resolves to no live session or
\* when the session rejects the participant, and a joinSession that returns
\* null leaves every participant list and both maps as they were.
C8_JoinFailureNoEffect ==
  [][ last'.op = "joinSession" =>
        /\ (\/ getSessionByJoinCode(Reg, last'.code) = Null
            \/ Rejects(getSessionByJoinCode(Reg, last'.code)[1])) => ~last'.ok
        /\ ~last'.ok =>
             /\ Membership(sessions') = Membership(sessions)
             /\ joinCodes' = joinCodes
    ]_vars

\* joinSession returned null for a canonical code that is bound to no session
\* (released or never issued), while a session is live
C8_Witness ==
  /\ last.op = "joinSession" /\ ~last.ok
  /\ last.code \in AllCodes
  /\ ~MapHas(joinCodes, last.code)
  /\ nextSessionId > MaxSessions
  /\ Len(sessions) = 1

\* C9: a successful joinSession returns the session the code is bound to and a
\* new participant with the requested observer flag, appended to that session;
\* the session has one participant more, every other session, every code and
\* every existing participant is as before.
C9_JoinAddsOne ==
  [][ (last'.op = "joinSession" /\ last'.ok) =>
        /\ getSessionByJoinCode(Reg, last'.code) # Null
        /\ getSessionByJoinCode(Reg, last'.code)[1].id = last'.sid
        /\ Len(sessions') = Len(sessions)
        /\ joinCodes' = joinCodes
        /\ \A i \in 1..Len(sessions) :
             IF sessions[i].k = last'.sid
               THEN /\ sessions'[i].k = last'.sid
                    /\ last'.pid \notin MemberIds(sessions[i].v)
                    /\ Len(sessions'[i].v.participants)
                         = Len(sessions[i].v.participants) + 1
                    /\ sessions'[i].v.participants
                         = Append(sessions[i].v.participants,
                                  [id |-> last'.pid, isObserver |-> last'.obs,
                                   selectedValue |-> Null])
               ELSE sessions'[i] = sessions[i]
    ]_vars

\* an observer joined the second of two sessions through its code
C9_Witness ==
  /\ last.op = "joinSession" /\ last.ok /\ last.obs
  /\ Len(sessions) = 2
  /\ last.sid = sessions[2].k
  /\ Len(sessions[2].v.participants) = 2

\* C10: leaveSession returns false when the session id is not live or the
\* participant is not a member of the session, and a leaveSession that returns
\* false removes no participant, deletes no session, releases no code and
\* leaves the timer as it was.
C10_LeaveFailureNoEffect ==
  [][ last'.op = "leaveSession" =>
        /\ ~MapHas(sessions, last'.sid) => ~last'.ok
        /\ last'.ok => last'.pid \in MemberIds(MapGet(sessions, last'.sid)[1])
        /\ ~last'.ok =>
             /\ Membership(sessions') = Membership(sessions)
             /\ joinCodes' = joinCodes
             /\ cleanupIntervalId' = cleanupIntervalId
             /\ timers' = timers
        /\ (last'.ok /\ MapHas(sessions', last'.sid)) =>
             last'.pid \notin MemberIds(MapGet(sessions', last'.sid)[1])
    ]_vars

\* leaveSession returned false for a live session, hence for a participant id
\* that is not among its members, after a participant had joined and left it
C10_Witness ==
  /\ last.op = "leaveSession" /\ ~last.ok
  /\ MapHas(sessions, last.sid)
  /\ nextSessionId = 2
  /\ nextParticipantId = 3
  /\ Len(MapGet(sessions, last.sid)[1].participants) = 1

\* s spells the code c: white space, then the characters of c in either case,
\* then white space
Spells(s, c) ==
  \E a \in 0..Len(s) :
    /\ a + Len(c) <= Len(s)
    /\ \A i \in 1..Len(s) :
         IF i <= a \/ i > a + Len(c)
           THEN s[i] = " "
           ELSE s[i] = c[i - a] \/ (s[i] \in DOMAIN UpperOfChar /\ UpperOfChar[s[i]] = c[i - a])

\* spellings of the codes put to the lookup
Spellings ==
  UNION { { c, toLowerCase(c), <<" ">> \o c, c \o <<" ">>,
            <<" ", " ">> \o toLowerCase(c) \o <<" ">>,
            <<toLowerCase(c)[1]>> \o Tail(c) } : c \in AllCodes }

\* C11: every stored code is upper-case without surrounding white space, every
\* spelling of a stored code (any letter case, surrounding white space) is
\* resolved to the session the code itself is resolved to, and a joinSession
\* through a spelling joins the session the spelled code is bound to.
C11_LookupNormalises ==
  /\ \A i \in 1..Len(joinCodes) :
       /\ \A n \in 1..Len(joinCodes[i].k) :
            joinCodes[i].k[n] # " " /\ UpperOfChar[joinCodes[i].k[n]] = joinCodes[i].k[n]
       /\ \A s \in Spellings :
            Spells(s, joinCodes[i].k) =>
              /\ getSessionByJoinCode(Reg, s) = getSessionByJoinCode(Reg, joinCodes[i].k)
              /\ getSessionByJoinCode(Reg, s) = getSessionById(Reg, joinCodes[i].v)
              /\ getSessionByJoinCode(Reg, s) # Null
  /\ (last.op = "joinSession" /\ last.ok) =>
       \E i \in 1..Len(joinCodes) :
         /\ Spells(last.code, joinCodes[i].k)
         /\ joinCodes[i].v = last.sid
         /\ last.pid \in MemberIds(MapGet(sessions, last.sid)[1])

\* a participant joined the second of two sessions through a lower-case,
\* padded spelling of its code
C11_Witness ==
  /\ last.op = "joinSession" /\ last.ok
  /\ last.code \notin AllCodes
  /\ Len(sessions) = 2
  /\ last.sid = sessions[2].k
  /\ Spells(last.code, getJoinCode(Reg, last.sid)[1])

\* C12: createSession always comes back with a session that is stored under
\* a join code of its own, and no session is ever stored without a code;
\* colliding draws, up to an occupied code space, are retried inside the call.
C12_CreateAlwaysSucceeds ==
  /\ last.op = "createSession" =>
       /\ last.ok
       /\ MapHas(sessions, last.sid)
       /\ getJoinCode(Reg, last.sid) = Some(last.code)
       /\ \A i \in 1..Len(joinCodes) :
            joinCodes[i].k = last.code => joinCodes[i].v = last.sid
  /\ \A i \in 1..Len(sessions) : getJoinCode(Reg, sessions[i].k) # Null

\* createSession was called with every code bound to a live session: the call
\* did not come back and its session is stored without a code
C12_FullCodeSpace ==
  /\ last.op = "createSession" /\ ~last.ok
  /\ CodeSpaceFull(Reg)
  /\ Len(sessions) = Len(joinCodes) + 1
  /\ MapHas(sessions, last.sid)
  /\ getJoinCode(Reg, last.sid) = Null

\* the steps that run connect(): a call, the onMounted callback, a reconnect
\* timer
RunsConnect(c) == c.op \in { "connect", "mounted", "reconnect" }

\* C13: connect() run while the current transport is open or still opening
\* creates no transport, leaves the current one in place and leaves status as
\* it is, whoever runs it (a caller, another instance, a reconnect timer).
C13_ConnectIdempotent ==
  [][ (RunsConnect(clast') /\ readyState(Chan, globalWs) \in { "OPEN", "CONNECTING" }) =>
        /\ clast'.created = 0
        /\ globalWs' = globalWs
        /\ globalStatus' = globalStatus
        /\ SocketIds(Chan') = SocketIds(Chan)
    ]_cvars

\* connect() ran while the current socket was still connecting: a second
\* socket is the current one and the first is still connecting
C13_SecondSocket ==
  /\ RunsConnect(clast) /\ clast.created = globalWs
  /\ \E so \in sockets : so.id # globalWs /\ so.readyState = "CONNECTING"
  /\ readyState(Chan, globalWs) = "CONNECTING"

\* C14: from a disconnect() on any instance until the next connect() call, no
\* reconnect timer and no heartbeat is pending, no close event schedules a
\* reconnect, no transport is created and status stays 'disconnected'.
C14_DisconnectHalts ==
  halted =>
    /\ timeouts = {}
    /\ intervals = {}
    /\ clast.scheduled = 0
    /\ clast.created = 0
    /\ globalStatus = "disconnected"

\* disconnect() was called on an instance with maxReconnectAttempts 1 while
\* the socket had the handlers of an instance with maxReconnectAttempts 5: the
\* close event that followed scheduled a reconnect
C14_ReconnectAfterDisconnect ==
  /\ halted
  /\ clast.op = "onclose" /\ clast.scheduled > 0
  /\ globalReconnectAttempts = 2
  /\ Cardinality(timeouts) = 1 /\ sockets = {}

\* C15: a close event schedules a reconnect only while the counter is below
\* maxReconnectAttempts, each scheduled attempt raises the counter by one, the
\* counter goes down only at a successful open and stays within
\* 0..maxReconnectAttempts: so at most maxReconnectAttempts attempts (5 by
\* default) are scheduled between two successful opens.
C15_AttemptsBounded ==
  [][ /\ clast'.op = "onclose" =>
           /\ globalReconnectAttempts >= instances[clast'.inst].maxReconnectAttempts
                => clast'.scheduled = 0
           /\ clast'.scheduled # 0 =>
                globalReconnectAttempts' = globalReconnectAttempts + 1
           /\ clast'.scheduled = 0 =>
                globalReconnectAttempts' = globalReconnectAttempts
      /\ globalReconnectAttempts' < globalReconnectAttempts => clast'.op = "onopen"
      /\ clast'.op \in { "onclose", "onopen", "disconnect" } =>
           globalReconnectAttempts' \in 0..instances[clast'.inst].maxReconnectAttempts
      /\ DefaultOptions.maxReconnectAttempts = 5
    ]_cvars

\* disconnect() on an instance with maxReconnectAttempts 1 set the counter to 1
\* while a socket with the handlers of an instance with maxReconnectAttempts 5
\* can still raise its close event
C15_CounterSetBack ==
  /\ clast.op = "disconnect"
  /\ instances[clast.inst].maxReconnectAttempts = 1
  /\ globalReconnectAttempts = 1
  /\ \E so \in sockets : instances[so.inst].maxReconnectAttempts = 5

\* C16: the open event of a socket sets the counter to 0 and status to
\* 'connected'; in the state it leaves, the whole budget of the handling
\* instance is available, and a close event that follows it directly schedules
\* the first attempt, with the base delay.
C16_OpenResetsCounter ==
  [][ /\ clast'.op = "onopen" =>
           /\ globalReconnectAttempts' = 0
           /\ globalStatus' = "connected"
      /\ (clast.op = "onopen" /\ clast'.op = "onclose"
            /\ instances[clast'.inst].autoReconnect) =>
           /\ clast'.scheduled = instances[clast'.inst].reconnectDelay
           /\ globalReconnectAttempts' = 1
    ]_cvars

\* a socket created by a reconnect timer (the counter was above 0 then) opened
C16_Witness ==
  /\ clast.op = "onopen"
  /\ \E so \in sockets :
       so.id = clast.sock /\ so.by = "reconnect" /\ so.readyState = "OPEN"
  /\ globalReconnectAttempts = 0

\* C17: a close event handled with autoReconnect and the counter below the
\* maximum adds exactly one reconnect timer and raises the counter by one; the
\* attempt that makes the counter k is delayed by reconnectDelay * 2^(k-1),
\* which for the default options is 1000, 2000, 4000, 8000, 16000 ms; a close
\* handled without autoReconnect, or at the maximum, schedules nothing and
\* leaves the counter; no other step schedules a reconnect.
C17_BackoffSchedule ==
  [][ /\ clast'.op = "onclose" =>
           LET opts == instances[clast'.inst] IN
           IF opts.autoReconnect /\ globalReconnectAttempts < opts.maxReconnectAttempts
             THEN /\ globalReconnectAttempts' = globalReconnectAttempts + 1
                  /\ Cardinality(timeouts') = Cardinality(timeouts) + 1
                  /\ \E to \in timeouts' \ timeouts :
                       /\ timeouts' = timeouts \cup { to }
                       /\ to.id = globalReconnectTimer'
                       /\ to.delay = clast'.scheduled
                  /\ clast'.scheduled =
                       opts.reconnectDelay * << 1, 2, 4, 8, 16 >>[globalReconnectAttempts']
                  /\ opts = DefaultOptions =>
                       clast'.scheduled =
                         << 1000, 2000, 4000, 8000, 16000 >>[globalReconnectAttempts']
             ELSE /\ globalReconnectAttempts' = globalReconnectAttempts
                  /\ timeouts' = timeouts
                  /\ clast'.scheduled = 0
      /\ clast'.op # "onclose" => timeouts' \subseteq timeouts
    ]_cvars

\* the fifth attempt under the default options was scheduled, in 16000 ms
C17_Witness ==
  /\ clast.op = "onclose" /\ clast.scheduled = 16000
  /\ globalReconnectAttempts = 5
  /\ instances[clast.inst] = DefaultOptions

\* a socket with the handlers of an instance without autoReconnect closed with
\* the counter at 0: nothing was scheduled
C17_WitnessDisabled ==
  /\ clast.op = "onclose" /\ clast.scheduled = 0
  /\ ~instances[clast.inst].autoReconnect
  /\ globalReconnectAttempts = 0 /\ timeouts = {}

\* C18: a transport created by a connect() call (not by a reconnect timer)
\* that closes while it is the current one, without disconnect(), gets a
\* reconnect scheduled when its instance has autoReconnect - also when retries
\* had been halted before the call and the transport never opened.
C18_ConnectReenablesRetries ==
  [][ clast'.op = "onclose" =>
        \A so \in sockets :
          ( /\ so.id = clast'.sock
            /\ so.id = globalWs
            /\ so.readyState \in { "CONNECTING", "OPEN" }
            /\ so.by \in { "connect", "mounted" }
            /\ instances[so.inst].autoReconnect ) => clast'.scheduled > 0
    ]_cvars

\* after the retries were halted, connect() was called and its socket failed
\* before it opened: the counter is still at the maximum and no reconnect is
\* scheduled
C18_NoRetryAfterFreshConnect ==
  /\ clast.op = "onclose" /\ clast.scheduled = 0
  /\ ~halted
  /\ \E so \in sockets :
       /\ so.id = globalWs /\ so.id = clast.sock
       /\ so.readyState = "CLOSED" /\ so.by = "connect"
       /\ instances[so.inst].autoReconnect
       /\ globalReconnectAttempts = instances[so.inst].maxReconnectAttempts
  /\ timeouts = {} /\ intervals = {}
  /\ globalStatus = "disconnected"

\* the module state and the runtime objects, without the record of the last
\* call
ChannelState ==
  << globalWs, globalReconnectAttempts, globalReconnectTimer, globalPingInterval,
     globalHandlers, globalStatus, isInitialized, instances, pendingMount,
     sockets, timeouts, intervals >>

\* C19: send() with the current transport not open transmits nothing and
\* leaves the channel as it is: nothing is kept for later, and no later step,
\* an open event included, transmits a message other than its own; send()
\* with the current transport open transmits one envelope of type, payload
\* and timestamp on it.
C19_SendOnlyWhenOpen ==
  [][ /\ clast'.op = "send" =>
           /\ ChannelState' = ChannelState
           /\ IF readyState(Chan, globalWs) = "OPEN"
                THEN /\ Len(clast'.sent) = 1
                     /\ DOMAIN clast'.sent[1] = { "sock", "type", "payload", "timestamp" }
                     /\ clast'.sent[1].sock = globalWs
                     /\ clast'.sent[1].type \in ClientTypes
                     /\ clast'.sent[1].payload \in Payloads
                     /\ clast'.sent[1].timestamp = now
                ELSE clast'.sent = <<>>
      /\ clast'.op = "ping" =>
           /\ Len(clast'.sent) <= 1
           /\ \A i \in 1..Len(clast'.sent) : clast'.sent[i].type = "ping"
      /\ clast'.op \notin { "send", "ping" } => clast'.sent = <<>>
    ]_cvars

\* send() was called while the current socket was still connecting
C19_Witness ==
  /\ clast.op = "send" /\ clast.sent = <<>>
  /\ globalWs # 0 /\ readyState(Chan, globalWs) = "CONNECTING"

\* send() was called with the current socket open
C19_WitnessOpen ==
  /\ clast.op = "send" /\ Len(clast.sent) = 1
  /\ readyState(Chan, globalWs) = "OPEN"

\* the places of entry e in the sequence of invocations
InvokedAt(invoked, e) == { k \in 1..Len(invoked) : invoked[k].handler = e }

\* C20: a well-formed message of type T invokes every handler registered for T
\* when it arrives exactly once, with the payload of the message, in the order
\* of registration, and invokes no handler registered for another type only -
\* also when a handler throws or handlers are registered or deregistered
\* during the dispatch.
C20_DispatchAllInOrder ==
  [][ (clast'.op = "onmessage" /\ clast'.msg[1].wellFormed) =>
        LET T == clast'.msg[1].type
            registered == HandlersOf(globalHandlers, T)
            invoked == clast'.invoked
        IN  /\ \A i \in 1..Len(registered) :
                 Cardinality(InvokedAt(invoked, registered[i])) = 1
            /\ \A i, j \in 1..Len(registered) :
                 i < j => \A k \in InvokedAt(invoked, registered[i]) :
                            \A m \in InvokedAt(invoked, registered[j]) : k < m
            /\ \A k \in 1..Len(invoked) :
                 /\ invoked[k].payload = clast'.msg[1].payload
                 /\ invoked[k].handler \in
                      Elems(registered) \cup Elems(HandlersOf(globalHandlers', T))
    ]_cvars

\* a message arrived for a type with two handlers of which the first throws:
\* the second was not invoked
C20_ThrowEndsDispatch ==
  /\ clast.op = "onmessage" /\ clast.msg[1].wellFormed /\ clast.caught
  /\ Len(HandlersOf(globalHandlers, clast.msg[1].type)) = 2
  /\ HandlersOf(globalHandlers, clast.msg[1].type)[1].fn = "thrower"
  /\ Len(clast.invoked) = 1

\* the functions callers hold that on(type, fn) returned and that have not
\* been called, other than u
OtherRegistrations(regs, u) ==
  { r \in regs : r.id # u.id /\ r.type = u.type /\ r.fn = u.fn /\ ~r.called }

\* the entries of a type other than e, in their order
Without(hs, type, e) == SelectSeq(HandlersOf(hs, type), LAMBDA x : x # e)

\* C21: the function returned by on(type, handler) deregisters exactly that
\* registration: every other registration - other handlers of the type,
\* handlers of other types, another registration of the same handler
\* function - is unaffected by its call, and its second call changes nothing.
C21_UnsubscribeExactlyOne ==
  [][ clast'.op = "unsubscribe" =>
        LET u == clast'.reg[1]
            e == Entry(u.fn, 0)
        IN  /\ \A t \in ServerTypes \ { u.type } :
                 HandlersOf(globalHandlers', t) = HandlersOf(globalHandlers, t)
            /\ Without(globalHandlers', u.type, e) = Without(globalHandlers, u.type, e)
            /\ OtherRegistrations(registrations, u) # {} =>
                 e \in Elems(HandlersOf(globalHandlers', u.type))
            /\ u.called => globalHandlers' = globalHandlers
    ]_cvars

\* on(type, handler) was called twice and the function the first call returned
\* was called: the handler is gone although the second registration stands
C21_OtherRegistrationLost ==
  /\ clast.op = "unsubscribe"
  /\ ~clast.reg[1].called
  /\ \E r \in registrations :
       /\ r.type = clast.reg[1].type /\ r.fn = clast.reg[1].fn /\ ~r.called
       /\ Entry(r.fn, 0) \notin Elems(HandlersOf(globalHandlers, r.type))

\* the wrappedHandlers of once among the invocations of a dispatch
InvokedWrappers(invoked) ==
  { invoked[k].handler : k \in { i \in 1..Len(invoked) : invoked[i].handler.once # 0 } }

\* C22: a handler registered with once(type, handler) is deregistered by its
\* first invocation, also when it throws, so it is invoked at most once over
\* any sequence of messages; the other handlers of the type stay registered.
C22_OnceAtMostOnce ==
  [][ (clast'.op = "onmessage" /\ clast'.msg[1].wellFormed) =>
        LET T == clast'.msg[1].type
            invoked == clast'.invoked
        IN  /\ \A w \in InvokedWrappers(invoked) :
                 /\ Cardinality(InvokedAt(invoked, w)) = 1
                 /\ w \notin Elems(HandlersOf(globalHandlers', T))
            /\ (\A k \in 1..Len(invoked) : invoked[k].handler.fn \in { "plain", "thrower" }) =>
                 \A e \in Elems(HandlersOf(globalHandlers, T)) \ InvokedWrappers(invoked) :
                   e \in Elems(HandlersOf(globalHandlers', T))
    ]_cvars

\* the handler passed to once threw at its first invocation: its
\* wrappedHandler is still registered after the dispatch
C22_ThrowingOnceStays ==
  /\ clast.op = "onmessage" /\ clast.msg[1].wellFormed /\ clast.caught
  /\ \E w \in InvokedWrappers(clast.invoked) :
       /\ w.fn = "thrower"
       /\ w \in Elems(HandlersOf(globalHandlers, clast.msg[1].type))

\* C23: an inbound frame that cannot be parsed is discarded: no handler is
\* invoked for it, the exception is caught, status, transport, reconnect
\* counter, timers and handler registry are unchanged, and every well-formed
\* message received afterwards is dispatched as it would have been.
C23_MalformedDiscarded ==
  [][ (clast'.op = "onmessage" /\ ~clast'.msg[1].wellFormed) =>
        /\ clast'.invoked = <<>>
        /\ clast'.caught
        /\ ChannelState' = ChannelState
        /\ \A d \in Inbound :
             onmessage(globalHandlers', d) = onmessage(globalHandlers, d)
    ]_cvars

\* a frame that cannot be parsed arrived with handlers registered for both
\* types, a wrappedHandler of once among them
C23_Witness ==
  /\ clast.op = "onmessage" /\ ~clast.msg[1].wellFormed
  /\ \A t \in ServerTypes : HandlersOf(globalHandlers, t) # <<>>
  /\ Wrappers(globalHandlers) # {}

\* the sockets whose connection is open
OpenSockets == { so \in sockets : so.readyState = "OPEN" }

\* C24: the heartbeat runs only while a connection is open: in every state
\* with no open transport no heartbeat timer is active, and a ping is sent
\* on an open transport only.
C24_HeartbeatOnlyWhileOpen ==
  /\ OpenSockets = {} => intervals = {}
  /\ (clast.op = "ping" /\ clast.sent # <<>>) =>
       \E so \in OpenSockets : so.id = clast.sock

\* every transport is closed and a heartbeat timer that no variable refers
\* to is still active
C24_HeartbeatOutlivesTransports ==
  /\ \A so \in sockets : so.readyState = "CLOSED"
  /\ globalPingInterval = 0
  /\ intervals # {}

\* C25: no periodic or delayed work is leaked on the channel: at most one
\* heartbeat timer and at most one reconnect timer exist at any time, and each
\* is the one whose handle globalPingInterval / globalReconnectTimer holds (a
\* timer installed over an active one without cancelling it would break this).
C25_NoLeakedTimers ==
  /\ Cardinality(intervals) <= 1
  /\ intervals \subseteq { globalPingInterval }
  /\ Cardinality(timeouts) <= 1
  /\ { to.id : to \in timeouts } \subseteq { globalReconnectTimer }

\* two reconnect timers are pending, one of them under a handle that was
\* overwritten
C25_TwoReconnectTimers ==
  /\ Cardinality(timeouts) = 2
  /\ \E to \in timeouts : to.id # globalReconnectTimer

\* the sockets whose connection is open or being established
LiveSockets == { so \in sockets : so.readyState \in { "CONNECTING", "OPEN" } }

\* C26: there is one logical connection per client: across any number of
\* useWebSocket() calls and any sequence of connect(), disconnect(), close
\* events and reconnect-timer firings, at most one transport is open or
\* opening at any time, and it is the one globalWs refers to. (Status and
\* handler registry are single module variables, the same for all instances.)
C26_OneTransport ==
  /\ Cardinality(LiveSockets) <= 1
  /\ \A so \in LiveSockets : so.id = globalWs

\* two transports are open at the same time, made for two instances
C26_TwoOpenTransports ==
  /\ Cardinality(OpenSockets) = 2
  /\ Len(instances) = 2
  /\ \E s1, s2 \in OpenSockets : s1.inst # s2.inst

\* the transitions of the status
StatusEdges ==
  { << "waiting", "voting" >>, << "voting", "revealed" >>, << "revealed", "voting" >> }
    \cup { << st, "completed" >> : st \in Statuses \ { "completed" } }

NonBlank(str) == \E i \in 1..Len(str) : str[i] # " "

\* the participants without their votes
Voteless(session) ==
  [i \in 1..Len(session.participants) |->
     [id |-> session.participants[i].id,
      isObserver |-> session.participants[i].isObserver]]

\* C28: starting a round with a non-empty story name from waiting or revealed
\* sets the status to voting, sets currentStory and currentDescription to the
\* trimmed inputs and resets the selectedValue of every participant to null;
\* a start request with an empty or whitespace-only story name changes
\* neither the session nor the inputs.
C28_StartRound ==
  [][ slast'.op = "startVoting" =>
        /\ slast'.emitted <=> NonBlank(controls.storyInput)
        /\ ~NonBlank(controls.storyInput) =>
             round' = round /\ controls' = controls
        /\ (NonBlank(controls.storyInput) /\ round.status \in { "waiting", "revealed" }) =>
             /\ round'.status = "voting"
             /\ round'.currentStory = Some(trim(controls.storyInput))
             /\ NonBlank(round'.currentStory[1])
             /\ round'.currentDescription = Some(trim(controls.descriptionInput))
             /\ \A i \in 1..Len(round'.participants) :
                  round'.participants[i].selectedValue = Null
             /\ Voteless(round') = Voteless(round)
    ]_svars

\* a round was started for three participants, an observer among them, with
\* the story typed with surrounding white space
C28_Witness ==
  /\ slast.op = "startVoting" /\ slast.accepted
  /\ round.status = "voting"
  /\ round.currentStory = Some(<< "A" >>)
  /\ Len(round.participants) = 3
  /\ \E i \in 1..3 : round.participants[i].isObserver

\* a start request with a whitespace-only story name was made after a round
\* had been revealed: the votes stand
C28_WitnessBlank ==
  /\ slast.op = "startVoting" /\ ~slast.emitted
  /\ controls.storyInput = << " " >>
  /\ round.status = "revealed"
  /\ \E i \in 1..Len(round.participants) : round.participants[i].selectedValue # Null

\* the selectedValue of every participant by id
Votes(session) ==
  { << session.participants[i].id, session.participants[i].selectedValue >> :
      i \in 1..Len(session.participants) }

C29_WitnessObserver ==
  /\ slast.op = "select" /\ slast.emitted /\ ~slast.accepted
  /\ round.status = "voting"
  /\ ParticipantOf(round, slast.pid) # Null
  /\ ParticipantOf(round, slast.pid)[1].isObserver

\* the ids of the participants who are to vote and have not
Missing(session) ==
  { session.participants[i].id :
      i \in { j \in 1..Len(session.participants) :
                /\ ~session.participants[j].isObserver
                /\ session.participants[j].selectedValue = Null } }

\* C30: all-votes-in is true exactly when no non-observer participant is
\* without a selectedValue: observers are ignored, and a non-observer who
\* joins makes it false; its becoming true never changes the status, and a
\* session becomes revealed only by the host's reveal.
C30_AllVotesInAdvisory ==
  [][ /\ allVotesIn(round) <=> Missing(round) = {}
      /\ allVotesIn(round') <=> Missing(round') = {}
      /\ (slast'.op = "join" /\ slast'.accepted) =>
           IF ParticipantOf(round', slast'.pid)[1].isObserver
             THEN allVotesIn(round') <=> allVotesIn(round)
             ELSE ~allVotesIn(round')
      /\ (~allVotesIn(round) /\ allVotesIn(round')) => round'.status = round.status
      /\ (round.status # "revealed" /\ round'.status = "revealed") =>
           slast'.op = "reveal" /\ slast'.emitted
    ]_svars

\* the last of two voters has voted while an observer has no value: all votes
\* are in and the session is still voting
C30_Witness ==
  /\ slast.op = "select" /\ slast.accepted
  /\ round.status = "voting"
  /\ allVotesIn(round)
  /\ Len(round.participants) = 3
  /\ Cardinality({ i \in 1..3 : round.participants[i].isObserver }) = 1
  /\ \E i \in 1..3 : round.participants[i].selectedValue = Null

\* a non-observer joined a voting session in which all votes were in
C30_WitnessJoin ==
  /\ slast.op = "join" /\ slast.accepted
  /\ round.status = "voting"
  /\ Missing(round) = { slast.pid }
  /\ Len(round.participants) = 3

\* C31: in every state the hostId of a live session is the id of a
\* participant that is in the session's participants - after createSession,
\* after every joinSession and leaveSession, the leave of the host and a join
\* into a session emptied with deleteWhenEmpty disabled included.
C31_HostIsParticipant ==
  \A i \in 1..Len(sessions) : HasParticipant(sessions[i].v, sessions[i].v.hostId)

\* a participant joined a session that its host, the last participant, had
\* left: the session has a participant and nobody holds the host rights
C31_HostlessSession ==
  /\ last.op = "joinSession" /\ last.ok
  /\ ~cleanupConfig.deleteWhenEmpty
  /\ \E i \in 1..Len(sessions) :
       /\ sessions[i].k = last.sid
       /\ Len(sessions[i].v.participants) > 0
       /\ ~HasParticipant(sessions[i].v, sessions[i].v.hostId)

\* the participants of a session who are no observers
NonObservers(session) ==
  { session.participants[i] :
      i \in { j \in 1..Len(session.participants) : ~session.participants[j].isObserver } }

\* C32: for a revealed round consensus is reported exactly when there are at
\* least two non-observer participants and all of them selected the identical
\* value: not when one of them has no value, not when two chose different
\* values; observers have no influence.
C32_ConsensusExact ==
  round # <<>> /\ round.status = "revealed" =>
    ( hasConsensus(round.participants) <=>
        /\ Cardinality(NonObservers(round)) >= 2
        /\ \E v \in PokerValues :
             \A p \in NonObservers(round) : p.selectedValue = Some(v) )

\* a round was revealed with two equal votes and one non-observer who had not
\* voted, and consensus is reported
C32_ConsensusWithMissingVote ==
  /\ round # <<>> /\ round.status = "revealed"
  /\ Cardinality(NonObservers(round)) = 3
  /\ Missing(round) # {}
  /\ hasConsensus(round.participants)

\* the codes bound to a session id
CodesOf(reg, sessionId) ==
  { reg.joinCodes[i].k : i \in { j \in 1..Len(reg.joinCodes) : reg.joinCodes[j].v = sessionId } }

\* C33: in every state of the registry the two maps are consistent: every
\* join code maps to the id of a session in sessions, every session in
\* sessions has exactly one join code, getSessionByJoinCode(getJoinCode(id))
\* is the session of that id, and there are as many join codes as sessions.
C33_MapsConsistent ==
  /\ \A i \in 1..Len(joinCodes) : MapHas(sessions, joinCodes[i].v)
  /\ \A i \in 1..Len(sessions) :
       /\ Cardinality(CodesOf(Reg, sessions[i].k)) = 1
       /\ getJoinCode(Reg, sessions[i].k) # Null
       /\ getSessionByJoinCode(Reg, getJoinCode(Reg, sessions[i].k)[1])
            = Some(sessions[i].v)
  /\ Len(joinCodes) = Len(sessions)

\* every code is bound, and a session without a join code is still in
\* sessions after a later call on the registry
C33_SessionWithoutCode ==
  /\ last.op \notin { "createSession", "getInstance" }
  /\ CodeSpaceFull(Reg)
  /\ Len(sessions) > Len(joinCodes)
  /\ \E i \in 1..Len(sessions) : CodesOf(Reg, sessions[i].k) = {}

\* C34: whenever status is 'connected' the current transport is open, so a
\* send() issued then is transmitted and not dropped; and status is
\* 'connecting' only while the transport created by connect() has neither
\* opened nor closed.
C34_StatusMatchesTransport ==
  /\ globalStatus = "connected" =>
       /\ readyState(Chan, globalWs) = "OPEN"
       /\ \A type \in ClientTypes, payload \in Payloads :
            send(Chan, type, payload, now).sent # <<>>
  /\ globalStatus = "connecting" => readyState(Chan, globalWs) = "CONNECTING"

\* status is 'connected', a send() was just issued and nothing was transmitted
C34_SendDroppedWhileConnected ==
  /\ globalStatus = "connected"
  /\ clast.op = "send"
  /\ clast.sent = <<>>

C35_WitnessRejoined ==
  /\ last.op = "joinSession" /\ last.ok
  /\ ~cleanupConfig.deleteWhenEmpty
  /\ Len(MapGet(sessions, last.sid)[1].participants) = 1
  /\ MapGet(sessions, last.sid)[1].participants[1].id = last.pid

\* with deleteWhenEmpty disabled a sweep tick has kept an empty session and
\* deleted an idle one
C35_WitnessSweep ==
  /\ last.op = "performCleanup"
  /\ ~cleanupConfig.deleteWhenEmpty
  /\ Len(last.visited) = 2
  /\ Len(sessions) = 1
  /\ Len(sessions[1].v.participants) = 0

\* the channel has stopped retrying: status is 'disconnected', no reconnect
\* timer is pending and no transport is connecting or closing
Stopped ==
  /\ globalStatus = "disconnected"
  /\ timeouts = {}
  /\ \A so \in sockets : so.readyState \notin { "CONNECTING", "CLOSING" }

\* a transport that was open has closed without a disconnect() call, and the
\* close handler of instance i has scheduled a reconnect
UnexpectedClose(i) ==
  /\ clast.op = "onclose" /\ clast.was = "OPEN"
  /\ clast.inst = i
  /\ clast.scheduled > 0

\* the retries have come to their end: the channel is connected again, or it
\* has stopped with the attempts of instance i used up or after a disconnect()
Settled(i) ==
  \/ globalStatus = "connected"
  \/ /\ Stopped
     /\ \/ halted
        \/ /\ i \in InstanceIds
           /\ globalReconnectAttempts = instances[i].maxReconnectAttempts

\* C36: under fairness of timers and transport callbacks, and when the calls
\* of connect() and disconnect() come to an end, after an unexpected close
\* with autoReconnect enabled the channel eventually reaches status
\* 'connected' again or eventually stops retrying with status 'disconnected'
\* and exactly maxReconnectAttempts attempts made; it does not stay in
\* 'connecting' or 'error' forever.
C36_ReconnectSettles ==
  <>[][~(Connect \/ Disconnect)]_<< vars, cvars, svars >> =>
    /\ \A i \in 1..MaxInstances : [](UnexpectedClose(i) => <>Settled(i))
    /\ []<>(globalStatus \notin { "connecting", "error" })

\* after the close of one of two open transports the reconnect timer has run
\* connect(), which did nothing: status is 'disconnected' with a transport
\* open, one attempt was made and nothing is pending
C36_StoppedAfterOneAttempt ==
  /\ clast.op = "reconnect" /\ clast.created = 0
  /\ Stopped /\ ~halted
  /\ readyState(Chan, globalWs) = "OPEN"
  /\ globalReconnectAttempts = 1
  /\ instances[clast.inst].maxReconnectAttempts = 5

====
